---- MODULE Spec2Model ----
(***************************************************************************)
(* Model of the vision-guided push-trajectory planner of echo-robot:       *)
(* TrajectoryPlanner (src/trajectory_planner.py), the detect-plan cycle of *)
(* VisionTrajectoryController                                              *)
(* (src/echo_robot/vision_trajectory_control.py), the solver               *)
(* inverse_kinematics of src/echo-robot/lerobot_yolo.py and                *)
(* CoordinateTransformer (src/echo-robot/utils/coordinate_transform.py).   *)
(* Spec is the planner and its callers, CalibSpec the calibration          *)
(* components.                                                             *)
(*                                                                         *)
(* Fixed-point units: lengths in 1e-4 m (0.1159 m = 1159), durations in    *)
(* ms (2.0 s = 2000), angles in millidegrees, confidences in thousandths   *)
(* (0.3 = 300), pixels as integers.  The speed limit 0.1 m/s makes a       *)
(* length of d units take exactly d ms.                                    *)
(***************************************************************************)
EXTENDS Integers, Sequences, FiniteSets, TLC

VARIABLES
    camera_params,  \* TrajectoryPlanner.camera_params, set once by __init__
    cap,            \* VisionTrajectoryController.cap: camera opened or not
    caller,         \* what the calling script did last
    heap,           \* the waypoint dicts alive, addressed by position
    trajectory,     \* caller's reference to the list generate_push_trajectory returned
    smooth_arg,     \* the list object handed to smooth_trajectory
    before,         \* contents of smooth_arg's waypoints when the call started
    smoothed,       \* the list object smooth_trajectory returned
    gen_bottle,     \* argument of the last generate_push_trajectory call
    gen_angle,      \* push_angle of the last generate_push_trajectory call
    frame_boxes,    \* detector output for the frame last processed
    bottles,        \* list returned by detect_bottles
    gen_calls,      \* bottles passed to generate_push_trajectory in the last cycle
    plan_result,    \* value returned by detect_and_plan_trajectory
    ik_arg,         \* argument of the last direct inverse_kinematics call
    ik_result,      \* its result from TrajectoryPlanner.inverse_kinematics
    lerobot_result, \* its result from lerobot_yolo.inverse_kinematics
    stages,         \* steps the last detect-plan cycle went through, in order
    calibration_file,   \* what config/camera_params.json holds
    workspace_file,     \* what config/workspace_calibration.json holds
    transformer,    \* the CoordinateTransformer instance in use
    last_call,      \* the last call on the transformer or on pixel_to_world
    robot,          \* VisionTrajectoryController.robot: None or the connected arm
    keyboard,       \* VisionTrajectoryController.keyboard
    exec_described, \* whether the waypoint dicts executed carry 'description'
    exec_pc,        \* where execute_trajectory is: idle, running or how it ended
    exec_index,     \* position of the waypoint being executed
    exec_step,      \* step of the control loop of that waypoint
    exec_started,   \* positions execute_trajectory_waypoint was called with
    last_step,      \* what the last control step saw and did
    is_moving,      \* RobotController.is_moving of the integrated demo
    demo_running,   \* IntegratedDemo.demo_running
    push_pc,        \* where each thread of the integrated demo is
    is_running,     \* launcher: SystemState.is_running
    in_session,     \* launcher: SystemState.in_session
    robot_busy,     \* launcher: SystemState.robot_busy
    current_session,    \* launcher: IntegratedSystem.current_session
    session_history,    \* launcher: IntegratedSystem.session_history
    saved_sessions, \* launcher: the session files written, in order
    sessions_started,   \* launcher: number of SessionData objects created
    triggers,       \* launcher: the trigger signals processed, in order
    launcher_pc     \* launcher: where the main thread and each monitor thread is

vars == <<camera_params, cap, caller, heap, trajectory, smooth_arg, before,
          smoothed, gen_bottle, gen_angle, frame_boxes, bottles, gen_calls,
          plan_result, ik_arg, ik_result, lerobot_result, stages,
          calibration_file, workspace_file, transformer, last_call,
          robot, keyboard, exec_described, exec_pc, exec_index, exec_step,
          exec_started, last_step, is_moving, demo_running, push_pc,
          is_running, in_session, robot_busy, current_session,
          session_history, saved_sessions, sessions_started, triggers,
          launcher_pc>>

\* The state of the calibration components
calibration_vars == <<calibration_file, workspace_file, transformer, last_call>>

\* The state of trajectory execution in VisionTrajectoryController
execution_vars == <<robot, keyboard, exec_described, exec_pc, exec_index,
                    exec_step, exec_started, last_step>>

\* The state of the integrated demo (demo_integrated.py)
demo_vars == <<is_moving, demo_running, push_pc>>

\* The state of the launcher (launcher.py)
launcher_vars == <<is_running, in_session, robot_busy, current_session,
                   session_history, saved_sessions, sessions_started,
                   triggers, launcher_pc>>

\* The state of the two threaded programs
concurrent_vars == <<demo_vars, launcher_vars>>

\* The state of the components around the planner
component_vars == <<execution_vars, concurrent_vars>>

----------------------------------------------------------------------------
(* Robot and planner parameters, TrajectoryPlanner.__init__ *)

l1 == 1159
l2 == 1350

x_min == 1000
x_max == 2500
y_min == -1200
y_max == 1200
z_min == 500
z_max == 2000

workspace == [x_min |-> x_min, x_max |-> x_max, y_min |-> y_min,
              y_max |-> y_max, z_min |-> z_min, z_max |-> z_max]

push_distance == 500
approach_height == 1200
contact_height == 800
safe_height == 1500

approach_offset == 300
precontact_offset == 100

home_x == 1500
home_y == 0

min_duration == 500
max_speed == 1

conf_threshold == 300

----------------------------------------------------------------------------
(* Arithmetic of the math module, in fixed point *)

Max(a, b) == IF a >= b THEN a ELSE b
Min(a, b) == IF a <= b THEN a ELSE b

RECURSIVE SqrtSearch(_, _, _)
SqrtSearch(n, lo, hi) ==
    IF lo >= hi THEN lo
    ELSE LET mid == (lo + hi + 1) \div 2
         IN  IF mid * mid <= n THEN SqrtSearch(n, mid, hi)
             ELSE SqrtSearch(n, lo, mid - 1)

\* math.sqrt, rounded down to the unit
Sqrt(n) == SqrtSearch(n, 0, 46340)

\* atan(2^-i) in microdegrees, i = 0..21
AtanTable == <<45000000, 26565051, 14036243, 7125016, 3576334, 1789911,
               895174, 447614, 223811, 111906, 55953, 27976, 13988, 6994,
               3497, 1749, 874, 437, 219, 109, 55, 27>>

RECURSIVE Pow2(_)
Pow2(i) == IF i = 0 THEN 1 ELSE 2 * Pow2(i - 1)

\* CORDIC vectoring: rotates (x, y), x >= 0, onto the x axis and returns
\* the angle turned, in microdegrees
RECURSIVE Cordic(_, _, _, _)
Cordic(x, y, acc, i) ==
    IF i > Len(AtanTable) \/ y = 0 THEN acc
    ELSE LET p == Pow2(i - 1)
         IN  IF y > 0
             THEN Cordic(x + y \div p, y - x \div p, acc + AtanTable[i], i + 1)
             ELSE Cordic(x - y \div p, y + x \div p, acc - AtanTable[i], i + 1)

\* atan of y/x for x, y >= 0, in millidegrees (0 .. 90000)
AtanQ1(y, x) ==
    LET m == Max(x, y)
        f == Max(1, 100000000 \div m)
    IN  (Cordic(x * f, y * f, 0, 1) + 500) \div 1000

\* math.atan2(y, x), in millidegrees (-180000 .. 180000)
Atan2(y, x) ==
    IF x = 0 /\ y = 0 THEN 0
    ELSE IF x >= 0 /\ y >= 0 THEN AtanQ1(y, x)
    ELSE IF x < 0 /\ y >= 0 THEN 180000 - AtanQ1(y, -x)
    ELSE IF x < 0 THEN AtanQ1(-y, -x) - 180000
    ELSE -AtanQ1(-y, x)

\* floor(n * 10000 / d) for d > 0, computed without leaving 32 bits
Ratio10000(n, d) ==
    LET q1 == (n * 100) \div d
        r1 == (n * 100) % d
    IN  q1 * 100 + (r1 * 100) \div d

\* a / b cut towards zero, b > 0
Quot(a, b) == IF a >= 0 THEN a \div b ELSE -((-a) \div b)

\* cv2.undistortPoints with P = camera_matrix m: n passes of its
\* fixed-point iteration x = x0 / (1 + k1 r^2) on the pixel offset d from
\* the principal point, (dx0, dy0) being the observed offset and k1 the
\* radial coefficient in thousandths
RECURSIVE UndistortIter(_, _, _, _, _, _)
UndistortIter(m, k1, dx0, dy0, d, n) ==
    IF n = 0 THEN d
    ELSE LET xn == Quot(d[1] * 1000, m.fx)
             yn == Quot(d[2] * 1000, m.fy)
             r2 == xn * xn + yn * yn
             denom == 1000000 + Quot(k1 * r2, 1000)
         IN  UndistortIter(m, k1, dx0, dy0,
                           <<Quot(dx0 * 1000000, denom), Quot(dy0 * 1000000, denom)>>,
                           n - 1)

\* math.cos / math.sin of a push angle.  A push angle is given by the pair
\* <<5 cos t, 5 sin t>>, so that every offset of the planner stays an integer.
cos5(push_angle) == push_angle[1]
sin5(push_angle) == push_angle[2]

----------------------------------------------------------------------------
(* TrajectoryPlanner: workspace check, coordinate transform, IK *)

None == [none |-> TRUE, refs |-> <<>>]
List(refs) == [none |-> FALSE, refs |-> refs]

\* TrajectoryPlanner.is_in_workspace
is_in_workspace(x, y, z) ==
    /\ workspace.x_min <= x /\ x <= workspace.x_max
    /\ workspace.y_min <= y /\ y <= workspace.y_max
    /\ workspace.z_min <= z /\ z <= workspace.z_max

\* The linear approximation used without calibration and after a failure
FallbackTransform(pixel_x, pixel_y) ==
    [x |-> 1500 + (pixel_x - 320) * 3, y |-> (pixel_y - 240) * 3]

\* TrajectoryPlanner.pixel_to_world.  In the calibrated branch
\* 0.15 + (u - cx) * 0.75 / fx * 0.3 is 1500 + (u - cx) * 2250 / fx here,
\* u being the undistorted pixel.
pixel_to_world(params, pixel_x, pixel_y) ==
    IF ~params.loaded THEN FallbackTransform(pixel_x, pixel_y)
    ELSE IF ~params.well_formed THEN FallbackTransform(pixel_x, pixel_y)
    ELSE LET dx0 == pixel_x - params.cx
             dy0 == pixel_y - params.cy
             d == UndistortIter(params, params.k1, dx0, dy0, <<dx0, dy0>>, 5)
         IN  [x |-> 1500 + (d[1] * 2250) \div params.fx,
              y |-> (d[2] * 2250) \div params.fy]

NoAngles == [shoulder_pan |-> 0, shoulder_lift |-> 0, elbow_flex |-> 0,
             wrist_flex |-> 0, wrist_roll |-> 0, gripper |-> 0]

\* Mutant of inverse_kinematics: the shoulder angle is alpha + beta
inverse_kinematics_shoulder_sign(x, y) ==
    LET d2 == x * x + y * y
    IN  IF d2 > (l1 + l2) * (l1 + l2) \/ d2 < (l1 - l2) * (l1 - l2)
        THEN [none |-> TRUE, angles |-> NoAngles]
        ELSE LET raw == Ratio10000(d2 - l1 * l1 - l2 * l2, 2 * l1 * l2)
                 cos_q2 == Max(-10000, Min(10000, raw))
                 sin_q2 == Sqrt(100000000 - cos_q2 * cos_q2)
                 q2 == Atan2(sin_q2, cos_q2)
                 alpha == Atan2(y, x)
                 beta == Atan2(l2 * sin_q2, l1 * 10000 + l2 * cos_q2)
                 q1 == alpha + beta
             IN  [none |-> FALSE,
                  angles |-> [shoulder_pan |-> alpha, shoulder_lift |-> q1,
                              elbow_flex |-> q2, wrist_flex |-> 0,
                              wrist_roll |-> 0, gripper |-> 0]]

\* TrajectoryPlanner.inverse_kinematics: none is TRUE for a None result.
\* distance is compared through its square; cos_q2 is kept in 1/10000.
inverse_kinematics(x, y) ==
    LET d2 == x * x + y * y
    IN  IF d2 > (l1 + l2) * (l1 + l2) \/ d2 < (l1 - l2) * (l1 - l2)
        THEN [none |-> TRUE, angles |-> NoAngles]
        ELSE LET raw == Ratio10000(d2 - l1 * l1 - l2 * l2, 2 * l1 * l2)
                 cos_q2 == Max(-10000, Min(10000, raw))
                 sin_q2 == Sqrt(100000000 - cos_q2 * cos_q2)
                 q2 == Atan2(sin_q2, cos_q2)
                 alpha == Atan2(y, x)
                 beta == Atan2(l2 * sin_q2, l1 * 10000 + l2 * cos_q2)
                 q1 == alpha - beta
             IN  [none |-> FALSE,
                  angles |-> [shoulder_pan |-> alpha, shoulder_lift |-> q1,
                              elbow_flex |-> q2, wrist_flex |-> 0,
                              wrist_roll |-> 0, gripper |-> 0]]

----------------------------------------------------------------------------
(* lerobot_yolo.inverse_kinematics, the solver of the keyboard control loop *)

\* URDF limits of joint2 and joint3 in millidegrees: -0.1 rad, 3.45 rad,
\* -0.2 rad and pi
joint2_min == -5730
joint2_max == 197670
joint3_min == -11459
joint3_max == 180000

\* theta1_offset = atan2(0.028, 0.11257), theta2_offset = atan2(0.0052, 0.1349)
\* + theta1_offset
theta1_offset == Atan2(2800, 11257)
theta2_offset == Atan2(52, 1349) + theta1_offset

\* (x, y) * (radius / r): the point moved along its ray onto the circle
RescaleTo(x, y, radius) ==
    LET r10 == Sqrt((x * x + y * y) * 100)
    IN  <<Quot(x * radius * 10, r10), Quot(y * radius * 10, r10)>>

\* The radial clamp of lines 73-85: the target and the squared distance the
\* law of cosines is given
RadialClamp(x, y) ==
    LET d2 == x * x + y * y
        r_max == l1 + l2
        r_min == IF l1 >= l2 THEN l1 - l2 ELSE l2 - l1
    IN  IF d2 > r_max * r_max
        THEN [p |-> RescaleTo(x, y, r_max), r2 |-> r_max * r_max]
        ELSE IF d2 < r_min * r_min /\ d2 > 0
        THEN [p |-> RescaleTo(x, y, r_min), r2 |-> r_min * r_min]
        ELSE [p |-> <<x, y>>, r2 |-> d2]

NoPose == [raised |-> TRUE, joint2_deg |-> 0, joint3_deg |-> 0]

\* lerobot_yolo.inverse_kinematics(x, y).  raised is TRUE when math.acos is
\* given a value outside [-1, 1] and raises ValueError.  sin(theta2) is
\* sin(acos(cos_theta2)) and cos(theta2) is -cos_theta2, both in 1/10000.
lerobot_inverse_kinematics(x, y) ==
    LET c == RadialClamp(x, y)
        cos_theta2 == -Ratio10000(c.r2 - l1 * l1 - l2 * l2, 2 * l1 * l2)
    IN  IF cos_theta2 > 10000 \/ cos_theta2 < -10000
        THEN NoPose
        ELSE LET sin_theta2 == Sqrt(100000000 - cos_theta2 * cos_theta2)
                 theta2 == 180000 - Atan2(sin_theta2, cos_theta2)
                 beta == Atan2(c.p[2], c.p[1])
                 gamma == Atan2(l2 * sin_theta2, l1 * 10000 - l2 * cos_theta2)
                 theta1 == beta + gamma
                 joint2 == Max(joint2_min, Min(joint2_max, theta1 + theta1_offset))
                 joint3 == Max(joint3_min, Min(joint3_max, theta2 + theta2_offset))
             IN  [raised |-> FALSE, joint2_deg |-> 90000 - joint2,
                  joint3_deg |-> joint3 - 90000]

\* RobotController.inverse_kinematics of echo-robot/demo_integrated.py: the
\* statements of lerobot_yolo.inverse_kinematics, copied
RobotController_inverse_kinematics(x, y) == lerobot_inverse_kinematics(x, y)

\* SimpleRobotController.inverse_kinematics_simple of echo-robot/demo_simple.py:
\* the target is rescaled onto r_max only, cos_theta2 is clamped, no offsets
\* and no joint limits
inverse_kinematics_simple(x, y) ==
    LET d2 == x * x + y * y
        r_max == l1 + l2
        p == IF d2 > r_max * r_max THEN RescaleTo(x, y, r_max) ELSE <<x, y>>
        r2 == IF d2 > r_max * r_max THEN r_max * r_max ELSE d2
        raw == Ratio10000(r2 - l1 * l1 - l2 * l2, 2 * l1 * l2)
        cos_theta2 == Max(-10000, Min(10000, raw))
        sin_theta2 == Sqrt(100000000 - cos_theta2 * cos_theta2)
        theta2 == Atan2(sin_theta2, cos_theta2)
        theta1 == Atan2(p[2], p[1])
                  - Atan2(l2 * sin_theta2, l1 * 10000 + l2 * cos_theta2)
    IN  [raised |-> FALSE, joint2_deg |-> theta1, joint3_deg |-> theta2]

----------------------------------------------------------------------------
(* TrajectoryPlanner.generate_push_trajectory *)

Waypoint(name, x, y, z, duration) ==
    [name |-> name, x |-> x, y |-> y, z |-> z, duration |-> duration,
     has_joint_angles |-> FALSE, joint_angles |-> NoAngles]

\* Mutant of PushWaypoints: the arm retracts without lifting
PushWaypoints_retract_low(bottle, push_angle) ==
    LET start_x == bottle.world_x
        start_y == bottle.world_y
        approach_x == start_x - (cos5(push_angle) * approach_offset) \div 5
        approach_y == start_y - (sin5(push_angle) * approach_offset) \div 5
        precontact_x == start_x - (cos5(push_angle) * precontact_offset) \div 5
        precontact_y == start_y - (sin5(push_angle) * precontact_offset) \div 5
        push_x == start_x + (cos5(push_angle) * push_distance) \div 5
        push_y == start_y + (sin5(push_angle) * push_distance) \div 5
    IN  << Waypoint("start", home_x, home_y, safe_height, 2000),
           Waypoint("above_bottle", start_x, start_y, approach_height, 2000),
           Waypoint("approach", approach_x, approach_y, contact_height, 1500),
           Waypoint("pre_contact", precontact_x, precontact_y, contact_height, 1000),
           Waypoint("contact", start_x, start_y, contact_height, 500),
           Waypoint("push_through", push_x, push_y, contact_height, 2000),
           Waypoint("retract", push_x, push_y, contact_height, 1500),
           Waypoint("return_home", home_x, home_y, safe_height, 3000) >>

\* The 8 waypoints as appended, before joint angles are resolved
PushWaypoints(bottle, push_angle) ==
    LET start_x == bottle.world_x
        start_y == bottle.world_y
        approach_x == start_x - (cos5(push_angle) * approach_offset) \div 5
        approach_y == start_y - (sin5(push_angle) * approach_offset) \div 5
        precontact_x == start_x - (cos5(push_angle) * precontact_offset) \div 5
        precontact_y == start_y - (sin5(push_angle) * precontact_offset) \div 5
        push_x == start_x + (cos5(push_angle) * push_distance) \div 5
        push_y == start_y + (sin5(push_angle) * push_distance) \div 5
    IN  << Waypoint("start", home_x, home_y, safe_height, 2000),
           Waypoint("above_bottle", start_x, start_y, approach_height, 2000),
           Waypoint("approach", approach_x, approach_y, contact_height, 1500),
           Waypoint("pre_contact", precontact_x, precontact_y, contact_height, 1000),
           Waypoint("contact", start_x, start_y, contact_height, 500),
           Waypoint("push_through", push_x, push_y, contact_height, 2000),
           Waypoint("retract", push_x, push_y, approach_height, 1500),
           Waypoint("return_home", home_x, home_y, safe_height, 3000) >>

\* Mutant of ResolveJointAngles: a waypoint IK cannot solve is skipped
RECURSIVE ResolveJointAngles_skip_failed(_, _)
ResolveJointAngles_skip_failed(waypoints, i) ==
    IF i > Len(waypoints) THEN [none |-> FALSE, waypoints |-> waypoints]
    ELSE LET joint_angles == inverse_kinematics(waypoints[i].x, waypoints[i].y)
         IN  IF joint_angles.none
             THEN ResolveJointAngles_skip_failed(waypoints, i + 1)
             ELSE ResolveJointAngles_skip_failed(
                      [waypoints EXCEPT ![i].has_joint_angles = TRUE,
                                        ![i].joint_angles = joint_angles.angles],
                      i + 1)

\* The loop over the waypoints: the first None from IK ends the call
RECURSIVE ResolveJointAngles(_, _)
ResolveJointAngles(waypoints, i) ==
    IF i > Len(waypoints) THEN [none |-> FALSE, waypoints |-> waypoints]
    ELSE LET joint_angles == inverse_kinematics(waypoints[i].x, waypoints[i].y)
         IN  IF joint_angles.none
             THEN [none |-> TRUE, waypoints |-> <<>>]
             ELSE ResolveJointAngles(
                      [waypoints EXCEPT ![i].has_joint_angles = TRUE,
                                        ![i].joint_angles = joint_angles.angles],
                      i + 1)

generate_push_trajectory(bottle, push_angle) ==
    ResolveJointAngles(PushWaypoints(bottle, push_angle), 1)

----------------------------------------------------------------------------
(* TrajectoryPlanner.smooth_trajectory, on the heap of waypoint dicts *)

\* Mutant of Dist: the height difference is left out
Dist_planar(a, b) ==
    Sqrt((a.x - b.x) * (a.x - b.x) + (a.y - b.y) * (a.y - b.y))

Dist(a, b) ==
    Sqrt((a.x - b.x) * (a.x - b.x) + (a.y - b.y) * (a.y - b.y)
         + (a.z - b.z) * (a.z - b.z))

\* Mutant of SmoothLoop: the loop runs through the last waypoint as well
RECURSIVE SmoothLoop_through_last(_, _, _)
SmoothLoop_through_last(h, refs, i) ==
    IF i > Len(refs) THEN h
    ELSE LET prev_wp == h[refs[i - 1]]
             curr_wp == h[refs[i]]
             next_wp == h[refs[IF i < Len(refs) THEN i + 1 ELSE i]]
             dist_prev == Dist(curr_wp, prev_wp)
             dist_next == Dist(next_wp, curr_wp)
             duration == Max(min_duration, Max(dist_prev, dist_next) \div max_speed)
         IN  SmoothLoop_through_last([h EXCEPT ![refs[i]].duration = duration],
                                     refs, i + 1)

\* Loop body for index i (1-based), then the rest of the loop.  smoothed is
\* a copy of the list only: its elements are the caller's waypoint dicts.
RECURSIVE SmoothLoop(_, _, _)
SmoothLoop(h, refs, i) ==
    IF i > Len(refs) - 1 THEN h
    ELSE LET prev_wp == h[refs[i - 1]]
             curr_wp == h[refs[i]]
             next_wp == h[refs[i + 1]]
             dist_prev == Dist(curr_wp, prev_wp)
             dist_next == Dist(next_wp, curr_wp)
             duration == Max(min_duration, Max(dist_prev, dist_next) \div max_speed)
         IN  SmoothLoop([h EXCEPT ![refs[i]].duration = duration], refs, i + 1)

\* Mutant of smooth_trajectory: the new duration of a waypoint is blended
\* with the duration it had
smooth_trajectory_blended(h, traj) ==
    IF traj.none \/ Len(traj.refs) = 0
    THEN [heap |-> h, result |-> traj]
    ELSE LET s == SmoothLoop(h, traj.refs, 2)
             inner == {traj.refs[i] : i \in 2 .. Len(traj.refs) - 1}
         IN  [heap |-> [k \in DOMAIN h |->
                          IF k \in inner
                          THEN [s[k] EXCEPT !.duration =
                                    (s[k].duration + h[k].duration) \div 2]
                          ELSE s[k]],
              result |-> List(traj.refs)]

smooth_trajectory(h, traj) ==
    IF traj.none \/ Len(traj.refs) = 0
    THEN [heap |-> h, result |-> traj]
    ELSE [heap |-> SmoothLoop(h, traj.refs, 2), result |-> List(traj.refs)]

----------------------------------------------------------------------------
(* TrajectoryPlanner.detect_bottles *)

\* Class names are sequences of characters so that `in` is a substring test
bottle_name == <<"b", "o", "t", "t", "l", "e">>
cup_name == <<"c", "u", "p">>
can_name == <<"c", "a", "n">>

\* str.lower on the letters that occur in the class names modelled
LowerChar(c) ==
    IF c = "B" THEN "b" ELSE IF c = "C" THEN "c" ELSE IF c = "P" THEN "p" ELSE c

Lower(s) == [i \in 1..Len(s) |-> LowerChar(s[i])]

\* sub in s
Contains(sub, s) ==
    \E i \in 0..(Len(s) - Len(sub)) : SubSeq(s, i + 1, i + Len(sub)) = sub

\* The test of lines 82-84 on one box
IsPushTarget(class_name, conf) ==
    /\ \/ Contains(bottle_name, Lower(class_name))
       \/ Contains(cup_name, Lower(class_name))
       \/ Contains(can_name, Lower(class_name))
    /\ conf > conf_threshold

\* int((a + b) / 2) for pixel coordinates a, b >= 0
Center(a, b) == (a + b) \div 2

\* Mutant of DetectLoop: the workspace test on the projected centre is missing
RECURSIVE DetectLoop_unfiltered(_, _, _, _)
DetectLoop_unfiltered(params, boxes, i, acc) ==
    IF i > Len(boxes) THEN acc
    ELSE LET box == boxes[i]
             center_x == Center(box.x1, box.x2)
             center_y == Center(box.y1, box.y2)
             world == pixel_to_world(params, center_x, center_y)
             bottle == [pixel_x |-> center_x, pixel_y |-> center_y,
                        world_x |-> world.x, world_y |-> world.y, world_z |-> 0,
                        confidence |-> box.conf, class |-> box.cls,
                        bbox |-> <<box.x1, box.y1, box.x2, box.y2>>]
         IN  IF IsPushTarget(box.cls, box.conf)
             THEN DetectLoop_unfiltered(params, boxes, i + 1, Append(acc, bottle))
             ELSE DetectLoop_unfiltered(params, boxes, i + 1, acc)

RECURSIVE DetectLoop(_, _, _, _)
DetectLoop(params, boxes, i, acc) ==
    IF i > Len(boxes) THEN acc
    ELSE LET box == boxes[i]
             center_x == Center(box.x1, box.x2)
             center_y == Center(box.y1, box.y2)
             world == pixel_to_world(params, center_x, center_y)
             bottle == [pixel_x |-> center_x, pixel_y |-> center_y,
                        world_x |-> world.x, world_y |-> world.y, world_z |-> 0,
                        confidence |-> box.conf, class |-> box.cls,
                        bbox |-> <<box.x1, box.y1, box.x2, box.y2>>]
         IN  IF IsPushTarget(box.cls, box.conf)
                /\ is_in_workspace(world.x, world.y, 0)
             THEN DetectLoop(params, boxes, i + 1, Append(acc, bottle))
             ELSE DetectLoop(params, boxes, i + 1, acc)

detect_bottles(params, boxes) == DetectLoop(params, boxes, 1, <<>>)

\* Mutant of ClosestBottle: the key is the distance along x alone
RECURSIVE ClosestBottle_by_x(_, _, _)
ClosestBottle_by_x(bs, i, best) ==
    IF i > Len(bs) THEN best
    ELSE IF bs[i].world_x * bs[i].world_x < best.world_x * best.world_x
         THEN ClosestBottle_by_x(bs, i + 1, bs[i])
         ELSE ClosestBottle_by_x(bs, i + 1, best)

\* min(bottles, key = distance to the origin): the first of the nearest
RECURSIVE ClosestBottle(_, _, _)
ClosestBottle(bs, i, best) ==
    IF i > Len(bs) THEN best
    ELSE IF bs[i].world_x * bs[i].world_x + bs[i].world_y * bs[i].world_y
            < best.world_x * best.world_x + best.world_y * best.world_y
         THEN ClosestBottle(bs, i + 1, bs[i])
         ELSE ClosestBottle(bs, i + 1, best)

----------------------------------------------------------------------------
(* CoordinateTransformer, echo-robot/utils/coordinate_transform.py.         *)
(* World coordinates are in 0.1 mm (500.0 mm = 5000), the radial distortion *)
(* coefficient k1 in thousandths; the other distortion coefficients are 0.  *)

\* self.camera_matrix = None
NoMatrix == [none |-> TRUE, fx |-> 0, fy |-> 0, cx |-> 0, cy |-> 0]
Matrix(fx, fy, cx, cy) == [none |-> FALSE, fx |-> fx, fy |-> fy, cx |-> cx, cy |-> cy]

\* No homography_matrix attribute, no workspace_calibration.json.  A
\* homography maps pixel (u, v) to (ax * u / 10 + bx, ay * v / 10 + by).
NoHomography == [none |-> TRUE, ax |-> 0, bx |-> 0, ay |-> 0, by |-> 0]

\* What config/camera_params.json can hold: nothing (kind "missing"), text
\* that json.load rejects ("unparseable"), or an object with or without
\* the keys camera_matrix and distortion_coeffs
CalibrationFile(kind, has_matrix, has_coeffs, m, k1) ==
    [kind |-> kind, has_matrix |-> has_matrix, has_coeffs |-> has_coeffs,
     camera_matrix |-> m, k1 |-> k1]

\* complete, incomplete, unparseable or missing
FileClass(file) ==
    IF file.kind # "object" THEN file.kind
    ELSE IF file.has_matrix /\ file.has_coeffs THEN "complete"
    ELSE "incomplete"

\* Mutant of load_calibration: is_calibrated is set as soon as the camera
\* matrix is read
load_calibration_flag_early(t, file) ==
    IF file.kind = "missing" THEN [t |-> t, ok |-> FALSE]
    ELSE IF file.kind = "unparseable" \/ ~file.has_matrix
    THEN [t |-> t, ok |-> FALSE]
    ELSE IF ~file.has_coeffs
    THEN [t |-> [t EXCEPT !.camera_matrix = file.camera_matrix,
                          !.is_calibrated = TRUE],
          ok |-> FALSE]
    ELSE [t |-> [t EXCEPT !.camera_matrix = file.camera_matrix,
                          !.dist_coeffs = file.k1,
                          !.is_calibrated = TRUE],
          ok |-> TRUE]

\* CoordinateTransformer.load_calibration on the instance t: the new
\* instance state and the value returned.  The KeyError of a missing key
\* is caught after the assignments that came before it.
load_calibration(t, file) ==
    IF file.kind = "missing" THEN [t |-> t, ok |-> FALSE]
    ELSE IF file.kind = "unparseable" \/ ~file.has_matrix
    THEN [t |-> t, ok |-> FALSE]
    ELSE IF ~file.has_coeffs
    THEN [t |-> [t EXCEPT !.camera_matrix = file.camera_matrix], ok |-> FALSE]
    ELSE [t |-> [t EXCEPT !.camera_matrix = file.camera_matrix,
                          !.dist_coeffs = file.k1,
                          !.is_calibrated = TRUE],
          ok |-> TRUE]

default_workspace_config ==
    [camera_height |-> 5000, table_z |-> 0, robot_base_x |-> 0,
     robot_base_y |-> 0, pixel_to_mm_ratio |-> 10]

\* CoordinateTransformer.__init__.  loaded_kinds and persisted_at_init are
\* history: the kinds of file load_calibration has read on this instance,
\* and what workspace_calibration.json held when it was constructed.
CoordinateTransformer_init(file, persisted) ==
    LET fresh == [camera_matrix |-> NoMatrix, dist_coeffs |-> 0,
                  is_calibrated |-> FALSE,
                  workspace_config |-> default_workspace_config,
                  homography_matrix |-> NoHomography,
                  loaded_kinds |-> {FileClass(file)},
                  persisted_at_init |-> persisted]
    IN  load_calibration(fresh, file).t

\* CoordinateTransformer.undistort_point: cv2.undistortPoints with
\* P = camera_matrix, 5 iterations
undistort_point(t, pixel_x, pixel_y) ==
    IF ~t.is_calibrated THEN <<pixel_x, pixel_y>>
    ELSE LET m == t.camera_matrix
             dx0 == pixel_x - m.cx
             dy0 == pixel_y - m.cy
             d == UndistortIter(m, t.dist_coeffs, dx0, dy0, <<dx0, dy0>>, 5)
         IN  <<d[1] + m.cx, d[2] + m.cy>>

World(x, y, z) == [x |-> x, y |-> y, z |-> z]

\* CoordinateTransformer.pixel_to_world_simple
pixel_to_world_simple(t, pixel_x, pixel_y, assume_table_height) ==
    IF ~t.is_calibrated
    THEN World((pixel_x - 640) * 5, (pixel_y - 360) * 5, 0)
    ELSE LET u == undistort_point(t, pixel_x, pixel_y)
             m == t.camera_matrix
             c == t.workspace_config
         IN  IF assume_table_height
             THEN World(Quot((u[1] - m.cx) * c.camera_height, m.fx) + c.robot_base_x,
                        Quot((u[2] - m.cy) * c.camera_height, m.fy) + c.robot_base_y,
                        c.table_z)
             ELSE World(Quot((u[1] - m.cx) * 3000, m.fx),
                        Quot((u[2] - m.cy) * 3000, m.fy), 0)

\* CoordinateTransformer.world_to_pixel
world_to_pixel(t, world_x, world_y) ==
    IF ~t.is_calibrated
    THEN <<Quot(world_x * 2, 10) + 640, Quot(world_y * 2, 10) + 360>>
    ELSE LET m == t.camera_matrix
             c == t.workspace_config
         IN  <<Quot((world_x - c.robot_base_x) * m.fx, c.camera_height) + m.cx,
               Quot((world_y - c.robot_base_y) * m.fy, c.camera_height) + m.cy>>

\* cv2.findHomography on correspondences <<pixel_x, pixel_y, world_x,
\* world_y>> that an axis-aligned scaling fits exactly: that scaling; no
\* matrix when the pixels do not spread over both axes
findHomography(points) ==
    LET n == Len(points)
        xs == { ij \in (1..n) \X (1..n) : points[ij[1]][1] < points[ij[2]][1] }
        ys == { ij \in (1..n) \X (1..n) : points[ij[1]][2] < points[ij[2]][2] }
    IN  IF xs = {} \/ ys = {} THEN NoHomography
        ELSE LET a == CHOOSE ij \in xs : TRUE
                 b == CHOOSE ij \in ys : TRUE
                 ax == Quot(10 * (points[a[2]][3] - points[a[1]][3]),
                            points[a[2]][1] - points[a[1]][1])
                 ay == Quot(10 * (points[b[2]][4] - points[b[1]][4]),
                            points[b[2]][2] - points[b[1]][2])
             IN  [none |-> FALSE,
                  ax |-> ax, bx |-> points[a[1]][3] - Quot(ax * points[a[1]][1], 10),
                  ay |-> ay, by |-> points[b[1]][4] - Quot(ay * points[b[1]][2], 10)]

\* Mutant of calibrate_workspace: three reference points are accepted
calibrate_workspace_three(t, persisted, reference_points) ==
    IF Len(reference_points) < 3
    THEN [t |-> t, persisted |-> persisted, ok |-> FALSE]
    ELSE LET homography == findHomography(reference_points)
         IN  IF ~homography.none
             THEN [t |-> [t EXCEPT !.homography_matrix = homography],
                   persisted |-> homography, ok |-> TRUE]
             ELSE [t |-> t, persisted |-> persisted, ok |-> FALSE]

\* CoordinateTransformer.calibrate_workspace: the new instance state, the
\* new content of config/workspace_calibration.json and the value returned
calibrate_workspace(t, persisted, reference_points) ==
    IF Len(reference_points) < 4
    THEN [t |-> t, persisted |-> persisted, ok |-> FALSE]
    ELSE LET homography == findHomography(reference_points)
         IN  IF ~homography.none
             THEN [t |-> [t EXCEPT !.homography_matrix = homography],
                   persisted |-> homography, ok |-> TRUE]
             ELSE [t |-> t, persisted |-> persisted, ok |-> FALSE]

\* cv2.perspectiveTransform of one pixel
perspectiveTransform(h, pixel_x, pixel_y) ==
    World(Quot(h.ax * pixel_x, 10) + h.bx, Quot(h.ay * pixel_y, 10) + h.by, 0)

\* CoordinateTransformer.pixel_to_world_homography
pixel_to_world_homography(t, pixel_x, pixel_y) ==
    IF t.homography_matrix.none
    THEN pixel_to_world_simple(t, pixel_x, pixel_y, TRUE)
    ELSE perspectiveTransform(t.homography_matrix, pixel_x, pixel_y)

\* CoordinateTransformer.update_workspace_config(**kwargs): dict.update on
\* the keys workspace_config has
update_workspace_config(t, kwargs) ==
    [t EXCEPT !.workspace_config =
        [k \in DOMAIN t.workspace_config |->
            IF k \in DOMAIN kwargs THEN kwargs[k] ELSE t.workspace_config[k]]]

\* A call on the calibration components: its name, arguments and results
Call(op, args, ok, result) == [op |-> op, args |-> args, ok |-> ok, result |-> result]

NoCall == Call("none", <<>>, FALSE, World(0, 0, 0))

\* TrajectoryPlanner.load_camera_params: camera_params stays None unless
\* json.load succeeds; a loaded object that lacks a key makes
\* pixel_to_world fall back
load_camera_params(file) ==
    IF file.kind \in {"missing", "unparseable"}
    THEN [loaded |-> FALSE, well_formed |-> FALSE, fx |-> 0, fy |-> 0,
          cx |-> 0, cy |-> 0, k1 |-> 0]
    ELSE IF ~(file.has_matrix /\ file.has_coeffs)
    THEN [loaded |-> TRUE, well_formed |-> FALSE, fx |-> 0, fy |-> 0,
          cx |-> 0, cy |-> 0, k1 |-> 0]
    ELSE [loaded |-> TRUE, well_formed |-> TRUE, fx |-> file.camera_matrix.fx,
          fy |-> file.camera_matrix.fy, cx |-> file.camera_matrix.cx,
          cy |-> file.camera_matrix.cy, k1 |-> file.k1]

----------------------------------------------------------------------------
(* Inputs *)

MaxDetections == 2

CameraParamsChoices ==
    { [loaded |-> FALSE, well_formed |-> FALSE, fx |-> 0, fy |-> 0, cx |-> 0,
       cy |-> 0, k1 |-> 0],
      [loaded |-> TRUE, well_formed |-> FALSE, fx |-> 0, fy |-> 0, cx |-> 0,
       cy |-> 0, k1 |-> 0],
      [loaded |-> TRUE, well_formed |-> TRUE, fx |-> 450, fy |-> 450, cx |-> 320,
       cy |-> 240, k1 |-> 0] }

TargetXs == {1000, 1500, 1800, 2000, 2400, 2900}
TargetYs == {-800, 0, 500, 1000}

Targets == { [world_x |-> x, world_y |-> y] : x \in TargetXs, y \in TargetYs }

\* 0, atan(3/4), atan(4/3), pi/2, pi, -pi/2
PushAngles == { <<5, 0>>, <<4, 3>>, <<3, 4>>, <<0, 5>>, <<-5, 0>>, <<0, -5>> }

IKPoints == { <<x, y>> : x \in {-1000, 0, 100, 1500, 2000, 2900},
                         y \in {-1500, 0, 100, 500, 2000} }

Box(cls, conf, x1, y1, x2, y2) ==
    [cls |-> cls, conf |-> conf, x1 |-> x1, y1 |-> y1, x2 |-> x2, y2 |-> y2]

DetectorBoxes ==
    { Box(bottle_name, 900, 300, 200, 341, 280),
      Box(bottle_name, 300, 330, 230, 370, 290),
      Box(cup_name, 850, 600, 220, 640, 260),
      Box(<<"C", "u", "p">>, 600, 100, 100, 140, 160),
      Box(can_name, 200, 300, 200, 340, 280),
      Box(<<"p", "e", "r", "s", "o", "n">>, 950, 300, 200, 340, 280) }

RECURSIVE SeqsUpTo(_, _)
SeqsUpTo(S, n) ==
    IF n = 0 THEN { <<>> }
    ELSE LET shorter == SeqsUpTo(S, n - 1)
         IN  shorter \cup { Append(q, e) : q \in shorter, e \in S }

Frames == SeqsUpTo(DetectorBoxes, MaxDetections)

\* Calibration files: the complete ones are what camera_calibration.py
\* writes, with and without lens distortion
M1 == Matrix(1000, 1000, 640, 360)

CompleteCalibrationFiles ==
    { CalibrationFile("object", TRUE, TRUE, M1, 0),
      CalibrationFile("object", TRUE, TRUE, M1, -100) }

CalibrationFiles ==
    { CalibrationFile("missing", FALSE, FALSE, NoMatrix, 0),
      CalibrationFile("unparseable", FALSE, FALSE, NoMatrix, 0),
      CalibrationFile("object", FALSE, FALSE, NoMatrix, 0),
      CalibrationFile("object", FALSE, TRUE, NoMatrix, -100),
      CalibrationFile("object", TRUE, FALSE, M1, 0) }
    \cup CompleteCalibrationFiles

\* Two sample pixels of test_coordinate_transformation and one near the
\* corner of the 1280x720 image
Pixels == { <<640, 360>>, <<320, 180>>, <<1240, 700>> }

WorldPoints == { <<0, 0>>, <<-1600, -900>> }

\* Reference points for calibrate_workspace: none, three and four corners
\* of the image under 0.5 mm per pixel, four corners under 0.4 mm per
\* pixel, four pixels on one line, and five points
ReferencePointSets ==
    { <<>>,
      << <<0, 0, -3200, -1800>>, <<1280, 0, 3200, -1800>>, <<0, 720, -3200, 1800>> >>,
      << <<0, 0, -3200, -1800>>, <<1280, 0, 3200, -1800>>, <<0, 720, -3200, 1800>>,
         <<1280, 720, 3200, 1800>> >>,
      << <<0, 0, -1000, -500>>, <<1280, 0, 4120, -500>>, <<0, 720, -1000, 2380>>,
         <<1280, 720, 4120, 2380>> >>,
      << <<0, 0, 0, 0>>, <<100, 0, 500, 0>>, <<200, 0, 1000, 0>>, <<300, 0, 1500, 0>> >>,
      << <<0, 0, -3200, -1800>>, <<1280, 0, 3200, -1800>>, <<0, 720, -3200, 1800>>,
         <<1280, 720, 3200, 1800>>, <<640, 360, 0, 0>> >> }

\* Keyword arguments of update_workspace_config: the camera 400 mm above
\* the table, the robot base 100 mm along x
ConfigUpdates == { [camera_height |-> 4000, robot_base_x |-> 1000] }

\* Detections for the target selection: boxes of 20 x 20 pixels around
\* centres of the 640 x 480 image that the uncalibrated transform puts
\* inside the workspace in x and y, two of them at the same distance from
\* the arm origin and one with the smallest x but far along y
MaxSurvivors == 3

SurvivorCentres == { <<320, 240>>, <<250, 340>>, <<250, 140>>, <<420, 240>>,
                     <<220, 470>>, <<520, 40>> }

\* The dict detect_bottles builds for a box (lines 98-107)
BottleOf(params, box) ==
    LET center_x == Center(box.x1, box.x2)
        center_y == Center(box.y1, box.y2)
        world == pixel_to_world(params, center_x, center_y)
    IN  [pixel_x |-> center_x, pixel_y |-> center_y,
         world_x |-> world.x, world_y |-> world.y, world_z |-> 0,
         confidence |-> box.conf, class |-> box.cls,
         bbox |-> <<box.x1, box.y1, box.x2, box.y2>>]

SurvivorBottles ==
    { BottleOf([loaded |-> FALSE, well_formed |-> FALSE, fx |-> 0, fy |-> 0,
                cx |-> 0, cy |-> 0, k1 |-> 0],
               Box(bottle_name, 900, c[1] - 10, c[2] - 10, c[1] + 10, c[2] + 10)) :
        c \in SurvivorCentres }

SurvivorLists == SeqsUpTo(SurvivorBottles, MaxSurvivors) \ { <<>> }

----------------------------------------------------------------------------
(* State machine *)

NoBottle == [world_x |-> 0, world_y |-> 0]

\* No control step yet
NoStep == [stop_key |-> FALSE, sent |-> FALSE]

\* VisionTrajectoryController.__init__: no robot, no keyboard, nothing executed
ExecutionIdle ==
    /\ robot = "none"
    /\ keyboard = "none"
    /\ exec_described = FALSE
    /\ exec_pc = "idle"
    /\ exec_index = 0
    /\ exec_step = 0
    /\ exec_started = <<>>
    /\ last_step = NoStep

\* Bounds of the threaded programs
MaxManualThreads == 2
MaxMonitors == 2
MaxTriggers == 4

\* The timed robot worker is thread 0, the threads started by the 'p' key
\* are 1, 2, ...
TimedWorker == 0
DemoThreads == 0 .. MaxManualThreads

\* RobotController.__init__ and IntegratedDemo.__init__: not moving, the demo
\* not running, no thread started
DemoIdle ==
    /\ is_moving = FALSE
    /\ demo_running = FALSE
    /\ push_pc = [t \in DemoThreads |-> "unstarted"]

\* The main thread of the launcher is thread 0, the monitor thread of the
\* n-th session is n
MainThread == 0
LauncherThreads == 0 .. MaxMonitors

NoSession == [id |-> 0, duration_minutes |-> [type |-> "none", value |-> 0],
              has_metrics |-> FALSE, has_robot_triggers |-> FALSE,
              ended |-> FALSE]

\* IntegratedSystem.__init__ in real mode, before listen_for_triggers
LauncherIdle ==
    /\ is_running = FALSE
    /\ in_session = FALSE
    /\ robot_busy = FALSE
    /\ current_session = NoSession
    /\ session_history = <<>>
    /\ saved_sessions = <<>>
    /\ sessions_started = 0
    /\ triggers = <<>>
    /\ launcher_pc = [t \in LauncherThreads |->
                        IF t = MainThread THEN "constructed" ELSE "unstarted"]

ComponentsIdle == ExecutionIdle /\ DemoIdle /\ LauncherIdle

Init ==
    /\ ComponentsIdle
    /\ camera_params \in CameraParamsChoices
    /\ cap = "none"
    /\ caller = "idle"
    /\ heap = <<>>
    /\ trajectory = None
    /\ smooth_arg = None
    /\ before = <<>>
    /\ smoothed = None
    /\ gen_bottle = NoBottle
    /\ gen_angle = <<5, 0>>
    /\ frame_boxes = <<>>
    /\ bottles = <<>>
    /\ gen_calls = <<>>
    /\ plan_result = None
    /\ ik_arg = <<0, 0>>
    /\ ik_result = [none |-> TRUE, angles |-> NoAngles]
    /\ lerobot_result = lerobot_inverse_kinematics(0, 0)
    /\ stages = <<>>
    /\ calibration_file = CalibrationFile("missing", FALSE, FALSE, NoMatrix, 0)
    /\ workspace_file = NoHomography
    /\ transformer = CoordinateTransformer_init(calibration_file, NoHomography)
    /\ last_call = NoCall

Refs(n) == [i \in 1..n |-> i]

\* VisionTrajectoryController.initialize_camera: self.cap is assigned before
\* isOpened is tested, so a camera that fails to open leaves an object behind
initialize_camera ==
    /\ caller = "idle"
    /\ cap = "none"
    /\ \E opened \in BOOLEAN : cap' = IF opened THEN "opened" ELSE "closed"
    /\ UNCHANGED <<camera_params, caller, heap, trajectory, smooth_arg, before,
                   smoothed, gen_bottle, gen_angle, frame_boxes, bottles,
                   gen_calls, plan_result, ik_arg, ik_result>>
    /\ UNCHANGED <<lerobot_result, stages, calibration_vars, component_vars>>

\* A script calls planner.generate_push_trajectory(bottle, push_angle)
CallGenerate ==
    /\ caller = "idle"
    /\ \E bottle \in Targets, push_angle \in PushAngles :
          LET r == generate_push_trajectory(bottle, push_angle)
          IN  /\ heap' = r.waypoints
              /\ trajectory' = IF r.none THEN None ELSE List(Refs(Len(r.waypoints)))
              /\ gen_bottle' = bottle
              /\ gen_angle' = push_angle
    /\ caller' = "generated"
    /\ UNCHANGED <<camera_params, cap, smooth_arg, before, smoothed, frame_boxes,
                   bottles, gen_calls, plan_result, ik_arg, ik_result>>
    /\ UNCHANGED <<lerobot_result, stages, calibration_vars, component_vars>>

Snapshot(h, traj) == [k \in 1..Len(traj.refs) |-> h[traj.refs[k]]]

\* The script calls planner.smooth_trajectory on the list it holds, or on a
\* slice trajectory[i-1:j] of it
CallSmooth ==
    /\ caller = "generated"
    /\ \E i \in 1..9, j \in 0..8 :
          /\ i <= j + 1
          /\ trajectory.none => (i = 1 /\ j = 8)
          /\ LET arg == IF trajectory.none THEN None
                        ELSE List(SubSeq(trajectory.refs, i, j))
                 r == smooth_trajectory(heap, arg)
             IN  /\ smooth_arg' = arg
                 /\ before' = Snapshot(heap, arg)
                 /\ heap' = r.heap
                 /\ smoothed' = r.result
    /\ caller' = "smoothed"
    /\ UNCHANGED <<camera_params, cap, trajectory, gen_bottle, gen_angle,
                   frame_boxes, bottles, gen_calls, plan_result, ik_arg, ik_result>>
    /\ UNCHANGED <<lerobot_result, stages, calibration_vars, component_vars>>

\* The script smooths the list smooth_trajectory returned once more
CallSmoothAgain ==
    /\ caller = "smoothed"
    /\ LET r == smooth_trajectory(heap, smoothed)
       IN  /\ smooth_arg' = smoothed
           /\ before' = Snapshot(heap, smoothed)
           /\ heap' = r.heap
           /\ smoothed' = r.result
    /\ caller' = "resmoothed"
    /\ UNCHANGED <<camera_params, cap, trajectory, gen_bottle, gen_angle,
                   frame_boxes, bottles, gen_calls, plan_result, ik_arg, ik_result>>
    /\ UNCHANGED <<lerobot_result, stages, calibration_vars, component_vars>>

\* A script calls planner.detect_bottles(frame, model) on one frame
CallDetectBottles ==
    /\ caller = "idle"
    /\ \E boxes \in Frames :
          /\ frame_boxes' = boxes
          /\ bottles' = detect_bottles(camera_params, boxes)
    /\ caller' = "detected"
    /\ UNCHANGED <<camera_params, cap, heap, trajectory, smooth_arg, before,
                   smoothed, gen_bottle, gen_angle, gen_calls, plan_result,
                   ik_arg, ik_result>>
    /\ UNCHANGED <<lerobot_result, stages, calibration_vars, component_vars>>

\* A script calls planner.inverse_kinematics(x, y)
CallInverseKinematics ==
    /\ caller = "idle"
    /\ \E p \in IKPoints :
          /\ ik_arg' = p
          /\ ik_result' = inverse_kinematics(p[1], p[2])
          /\ lerobot_result' = lerobot_inverse_kinematics(p[1], p[2])
    /\ caller' = "ik"
    /\ UNCHANGED <<camera_params, cap, heap, trajectory, smooth_arg, before,
                   smoothed, gen_bottle, gen_angle, frame_boxes, bottles,
                   gen_calls, plan_result>>
    /\ UNCHANGED <<stages, calibration_vars, component_vars>>

\* VisionTrajectoryController.detect_and_plan_trajectory, one whole cycle.
\* ret is the outcome of cap.read(), boxes the detector output for the frame.
\* stages lists the steps the call went through: the call itself, then
\* detect_bottles, min, the waypoint list and the IK loop of
\* generate_push_trajectory, smooth_trajectory (called on whatever
\* generate_push_trajectory returned) and the return of a list or of None.
detect_and_plan_trajectory ==
    /\ caller \in {"idle", "planned"}
    /\ \E ret \in BOOLEAN, boxes \in Frames :
          /\ (cap = "closed") => ~ret
          /\ IF cap = "none" \/ ~ret
             THEN /\ plan_result' = None
                  /\ heap' = <<>>
                  /\ stages' = <<"Requested", "Aborted">>
                  /\ UNCHANGED <<frame_boxes, bottles, gen_calls>>
             ELSE LET found == detect_bottles(camera_params, boxes)
                  IN  /\ frame_boxes' = boxes
                      /\ bottles' = found
                      /\ IF Len(found) = 0
                         THEN /\ plan_result' = None
                              /\ heap' = <<>>
                              /\ gen_calls' = <<>>
                              /\ stages' = <<"Requested", "Detecting", "Aborted">>
                         ELSE LET target_bottle == ClosestBottle(found, 1, found[1])
                                  g == generate_push_trajectory(target_bottle, <<5, 0>>)
                                  t == IF g.none THEN None
                                       ELSE List(Refs(Len(g.waypoints)))
                                  r == smooth_trajectory(g.waypoints, t)
                              IN  /\ gen_calls' = <<target_bottle>>
                                  /\ heap' = r.heap
                                  /\ plan_result' = r.result
                                  /\ stages' =
                                        <<"Requested", "Detecting", "TargetSelected",
                                          "WaypointsSynthesized", "IKResolved",
                                          "Smoothed">>
                                        \o (IF r.result.none THEN <<"Aborted">>
                                            ELSE <<"ReadyForExecution">>)
    /\ caller' = "planned"
    /\ UNCHANGED <<camera_params, cap, trajectory, smooth_arg, before, smoothed,
                   gen_bottle, gen_angle, ik_arg, ik_result>>
    /\ UNCHANGED <<lerobot_result, calibration_vars, component_vars>>

Next ==
    \/ initialize_camera
    \/ CallGenerate
    \/ CallSmooth
    \/ CallSmoothAgain
    \/ CallDetectBottles
    \/ CallInverseKinematics
    \/ detect_and_plan_trajectory

Spec == Init /\ [][Next]_vars

----------------------------------------------------------------------------
(* The calibration components on their own: a CoordinateTransformer and a   *)
(* TrajectoryPlanner reading config/camera_params.json, and the calls a     *)
(* script makes on them                                                     *)

planner_vars == <<cap, caller, heap, trajectory, smooth_arg, before, smoothed,
                  gen_bottle, gen_angle, frame_boxes, bottles, gen_calls,
                  plan_result, ik_arg, ik_result, lerobot_result, stages>>

CalibInit ==
    /\ ComponentsIdle
    /\ calibration_file \in CalibrationFiles
    /\ workspace_file = NoHomography
    /\ transformer = CoordinateTransformer_init(calibration_file, NoHomography)
    /\ camera_params = load_camera_params(calibration_file)
    /\ last_call = NoCall
    /\ cap = "none"
    /\ caller = "idle"
    /\ heap = <<>>
    /\ trajectory = None
    /\ smooth_arg = None
    /\ before = <<>>
    /\ smoothed = None
    /\ gen_bottle = NoBottle
    /\ gen_angle = <<5, 0>>
    /\ frame_boxes = <<>>
    /\ bottles = <<>>
    /\ gen_calls = <<>>
    /\ plan_result = None
    /\ ik_arg = <<0, 0>>
    /\ ik_result = [none |-> TRUE, angles |-> NoAngles]
    /\ lerobot_result = lerobot_inverse_kinematics(0, 0)
    /\ stages = <<>>

\* camera_calibration.py save_calibration: a finished calibration run writes
\* a complete file
save_calibration ==
    /\ \E file \in CompleteCalibrationFiles :
          /\ file # calibration_file
          /\ calibration_file' = file
    /\ last_call' = Call("save_calibration", <<>>, TRUE, World(0, 0, 0))
    /\ UNCHANGED <<workspace_file, transformer, camera_params, planner_vars,
                   component_vars>>

\* transformer = CoordinateTransformer()
NewTransformer ==
    /\ transformer' = CoordinateTransformer_init(calibration_file, workspace_file)
    /\ last_call' = Call("CoordinateTransformer", <<>>, TRUE, World(0, 0, 0))
    /\ UNCHANGED <<calibration_file, workspace_file, camera_params, planner_vars,
                   component_vars>>

\* planner = TrajectoryPlanner()
NewPlanner ==
    /\ camera_params' = load_camera_params(calibration_file)
    /\ last_call' = Call("TrajectoryPlanner", <<>>, TRUE, World(0, 0, 0))
    /\ UNCHANGED <<calibration_file, workspace_file, transformer, planner_vars,
                   component_vars>>

\* transformer.load_calibration()
CallLoadCalibration ==
    /\ LET r == load_calibration(transformer, calibration_file)
       IN  /\ transformer' = [r.t EXCEPT !.loaded_kinds =
                                     @ \cup {FileClass(calibration_file)}]
           /\ last_call' = Call("load_calibration", <<>>, r.ok, World(0, 0, 0))
    /\ UNCHANGED <<calibration_file, workspace_file, camera_params, planner_vars,
                   component_vars>>

\* transformer.undistort_point(pixel_x, pixel_y)
CallUndistortPoint ==
    /\ \E p \in Pixels :
          LET u == undistort_point(transformer, p[1], p[2])
          IN  last_call' = Call("undistort_point", p, TRUE, World(u[1], u[2], 0))
    /\ UNCHANGED <<calibration_file, workspace_file, transformer, camera_params,
                   planner_vars, component_vars>>

\* transformer.pixel_to_world_simple(pixel_x, pixel_y, assume_table_height)
CallPixelToWorldSimple ==
    /\ \E p \in Pixels, assume_table_height \in BOOLEAN :
          last_call' = Call("pixel_to_world_simple", p, assume_table_height,
                            pixel_to_world_simple(transformer, p[1], p[2],
                                                  assume_table_height))
    /\ UNCHANGED <<calibration_file, workspace_file, transformer, camera_params,
                   planner_vars, component_vars>>

\* transformer.world_to_pixel(world_x, world_y)
CallWorldToPixel ==
    /\ \E w \in WorldPoints :
          LET q == world_to_pixel(transformer, w[1], w[2])
          IN  last_call' = Call("world_to_pixel", w, TRUE, World(q[1], q[2], 0))
    /\ UNCHANGED <<calibration_file, workspace_file, transformer, camera_params,
                   planner_vars, component_vars>>

\* transformer.calibrate_workspace(reference_points)
CallCalibrateWorkspace ==
    /\ \E reference_points \in ReferencePointSets :
          LET r == calibrate_workspace(transformer, workspace_file, reference_points)
          IN  /\ transformer' = r.t
              /\ workspace_file' = r.persisted
              /\ last_call' = Call("calibrate_workspace", reference_points, r.ok,
                                   World(0, 0, 0))
    /\ UNCHANGED <<calibration_file, camera_params, planner_vars,
                   component_vars>>

\* Mutant of CallPixelToWorldHomography: a transformer without a homography
\* picks up the persisted one during the call
CallPixelToWorldHomography_lazy_load ==
    /\ \E p \in Pixels :
          last_call' = Call("pixel_to_world_homography", p, TRUE,
                            pixel_to_world_homography(transformer, p[1], p[2]))
    /\ transformer' = IF transformer.homography_matrix.none
                      THEN [transformer EXCEPT !.homography_matrix = workspace_file]
                      ELSE transformer
    /\ UNCHANGED <<calibration_file, workspace_file, camera_params, planner_vars,
                   component_vars>>

\* transformer.pixel_to_world_homography(pixel_x, pixel_y)
CallPixelToWorldHomography ==
    /\ \E p \in Pixels :
          last_call' = Call("pixel_to_world_homography", p, TRUE,
                            pixel_to_world_homography(transformer, p[1], p[2]))
    /\ UNCHANGED <<calibration_file, workspace_file, transformer, camera_params,
                   planner_vars, component_vars>>

\* transformer.update_workspace_config(**kwargs)
CallUpdateWorkspaceConfig ==
    /\ \E kwargs \in ConfigUpdates :
          transformer' = update_workspace_config(transformer, kwargs)
    /\ last_call' = Call("update_workspace_config", <<>>, TRUE, World(0, 0, 0))
    /\ UNCHANGED <<calibration_file, workspace_file, camera_params, planner_vars,
                   component_vars>>

\* planner.pixel_to_world(pixel_x, pixel_y)
CallPixelToWorld ==
    /\ \E p \in Pixels :
          LET w == pixel_to_world(camera_params, p[1], p[2])
          IN  last_call' = Call("pixel_to_world", p, TRUE, World(w.x, w.y, 0))
    /\ UNCHANGED <<calibration_file, workspace_file, transformer, camera_params,
                   planner_vars, component_vars>>

CalibNext ==
    \/ save_calibration
    \/ NewTransformer
    \/ NewPlanner
    \/ CallLoadCalibration
    \/ CallUndistortPoint
    \/ CallPixelToWorldSimple
    \/ CallWorldToPixel
    \/ CallCalibrateWorkspace
    \/ CallPixelToWorldHomography
    \/ CallUpdateWorkspaceConfig
    \/ CallPixelToWorld

CalibSpec == CalibInit /\ [][CalibNext]_vars

----------------------------------------------------------------------------
(* The target selection of detect_and_plan_trajectory on its own: line 259  *)
(* applied to a list of detections                                          *)

SelectInit ==
    /\ ComponentsIdle
    /\ bottles \in SurvivorLists
    /\ camera_params = [loaded |-> FALSE, well_formed |-> FALSE, fx |-> 0,
                        fy |-> 0, cx |-> 0, cy |-> 0, k1 |-> 0]
    /\ cap = "opened"
    /\ caller = "idle"
    /\ heap = <<>>
    /\ trajectory = None
    /\ smooth_arg = None
    /\ before = <<>>
    /\ smoothed = None
    /\ gen_bottle = NoBottle
    /\ gen_angle = <<5, 0>>
    /\ frame_boxes = <<>>
    /\ gen_calls = <<>>
    /\ plan_result = None
    /\ ik_arg = <<0, 0>>
    /\ ik_result = [none |-> TRUE, angles |-> NoAngles]
    /\ lerobot_result = lerobot_inverse_kinematics(0, 0)
    /\ stages = <<>>
    /\ calibration_file = CalibrationFile("missing", FALSE, FALSE, NoMatrix, 0)
    /\ workspace_file = NoHomography
    /\ transformer = CoordinateTransformer_init(calibration_file, NoHomography)
    /\ last_call = NoCall

\* target_bottle = min(bottles, key = ...), handed to generate_push_trajectory
SelectTarget ==
    /\ caller = "idle"
    /\ gen_calls' = <<ClosestBottle(bottles, 1, bottles[1])>>
    /\ caller' = "selected"
    /\ UNCHANGED <<camera_params, cap, heap, trajectory, smooth_arg, before,
                   smoothed, gen_bottle, gen_angle, frame_boxes, bottles,
                   plan_result, ik_arg, ik_result, lerobot_result, stages,
                   calibration_vars, component_vars>>

SelectNext == SelectTarget

SelectSpec == SelectInit /\ [][SelectNext]_vars

----------------------------------------------------------------------------
(* Trajectory execution in VisionTrajectoryController: execute_trajectory   *)
(* and the control loop of execute_trajectory_waypoint, one loop iteration  *)
(* per step                                                                 *)

\* The planner, the camera and the calibration components as constructed,
\* without a calibration file
CoreIdle ==
    /\ camera_params = [loaded |-> FALSE, well_formed |-> FALSE, fx |-> 0,
                        fy |-> 0, cx |-> 0, cy |-> 0, k1 |-> 0]
    /\ cap = "none"
    /\ caller = "idle"
    /\ heap = <<>>
    /\ trajectory = None
    /\ smooth_arg = None
    /\ before = <<>>
    /\ smoothed = None
    /\ gen_bottle = NoBottle
    /\ gen_angle = <<5, 0>>
    /\ frame_boxes = <<>>
    /\ bottles = <<>>
    /\ gen_calls = <<>>
    /\ plan_result = None
    /\ ik_arg = <<0, 0>>
    /\ ik_result = [none |-> TRUE, angles |-> NoAngles]
    /\ lerobot_result = lerobot_inverse_kinematics(0, 0)
    /\ stages = <<>>
    /\ calibration_file = CalibrationFile("missing", FALSE, FALSE, NoMatrix, 0)
    /\ workspace_file = NoHomography
    /\ transformer = CoordinateTransformer_init(calibration_file, NoHomography)
    /\ last_call = NoCall

core_vars == <<camera_params, planner_vars, calibration_vars>>

control_freq == 50

\* int(duration * self.control_freq), duration in ms
TotalSteps(duration) == (duration * control_freq) \div 1000

\* Targets of the trajectories executed: the mock bottle of the manual test
\* mode and two more the planner solves
ExecTargets == { [world_x |-> 1800, world_y |-> 500],
                 [world_x |-> 1500, world_y |-> 0],
                 [world_x |-> 1700, world_y |-> -400] }

ExecState(pc, index, started) ==
    [pc |-> pc, index |-> index, started |-> started]

\* The for loop of execute_trajectory arriving at position i: the call of
\* execute_trajectory_waypoint up to its control loop.  bot is self.robot,
\* described tells whether the waypoint dicts have the key 'description'
\* that line 165 formats.
RECURSIVE EnterWaypoint(_, _, _, _, _, _)
EnterWaypoint(bot, h, refs, described, i, started) ==
    IF i > Len(refs) THEN ExecState("returned_true", Len(refs), started)
    ELSE LET waypoint == h[refs[i]]
             total_steps == TotalSteps(waypoint.duration)
             called == Append(started, i)
         IN  IF bot = "none" THEN ExecState("returned_false", i, called)
             ELSE IF ~waypoint.has_joint_angles \/ ~described
             THEN ExecState("raised", i, called)
             ELSE IF total_steps = 0
             THEN EnterWaypoint(bot, h, refs, described, i + 1, called)
             ELSE ExecState("running", i, called)

ExecInit ==
    /\ CoreIdle
    /\ ComponentsIdle

\* VisionTrajectoryController.initialize_robot: the robot and the keyboard
\* are constructed and connected, or an exception ends the call; an
\* exception of connect() leaves the objects assigned and main() returns
initialize_robot ==
    /\ robot = "none"
    /\ exec_pc = "idle"
    /\ \E outcome \in {"connected", "import_failed", "connect_failed"} :
          /\ robot' = IF outcome = "connected" THEN "connected"
                       ELSE IF outcome = "connect_failed" THEN "unconnected"
                       ELSE "none"
          /\ keyboard' = robot'
    /\ UNCHANGED <<exec_described, exec_pc, exec_index, exec_step, exec_started,
                   last_step, core_vars, concurrent_vars>>

\* What generate_push_trajectory followed by smooth_trajectory gives for the
\* targets, push angle 0: the waypoint dicts and the list returned
PlannedTrajectories ==
    { LET g == generate_push_trajectory(bottle, <<5, 0>>)
          r == smooth_trajectory(g.waypoints,
                                 IF g.none THEN None
                                 ELSE List(Refs(Len(g.waypoints))))
      IN  [bottle |-> bottle, heap |-> r.heap, result |-> r.result] :
        bottle \in ExecTargets }

\* The manual test mode of main(): generate_push_trajectory and
\* smooth_trajectory for a bottle, then execute_trajectory on the result up
\* to the first control step.  described: the caller added 'description'
\* to the waypoint dicts.
execute_trajectory ==
    /\ robot # "unconnected"
    /\ exec_pc # "running"
    /\ \E planned \in PlannedTrajectories, described \in BOOLEAN :
          LET e == EnterWaypoint(robot, planned.heap, planned.result.refs,
                                 described, 1, <<>>)
          IN  /\ ~planned.result.none
              /\ gen_bottle' = planned.bottle
              /\ gen_angle' = <<5, 0>>
              /\ heap' = planned.heap
              /\ trajectory' = planned.result
              /\ smoothed' = planned.result
              /\ exec_described' = described
              /\ exec_pc' = e.pc
              /\ exec_index' = e.index
              /\ exec_started' = e.started
    /\ exec_step' = 0
    /\ last_step' = NoStep
    /\ caller' = "executing"
    /\ UNCHANGED <<robot, keyboard, camera_params, cap, smooth_arg, before,
                   frame_boxes, bottles, gen_calls, plan_result, ik_arg,
                   ik_result, lerobot_result, stages, calibration_vars,
                   concurrent_vars>>

\* Mutant of execute_trajectory_waypoint: the action is sent before the
\* keyboard is read
execute_trajectory_waypoint_send_first ==
    /\ exec_pc = "running"
    /\ \E stop_key \in BOOLEAN, reached \in BOOLEAN :
          IF keyboard = "connected" /\ stop_key
          THEN /\ last_step' = [stop_key |-> TRUE, sent |-> TRUE]
               /\ exec_pc' = "returned_false"
               /\ UNCHANGED <<exec_index, exec_step, exec_started>>
          ELSE /\ last_step' = [stop_key |-> FALSE, sent |-> TRUE]
               /\ IF reached
                     \/ exec_step + 1 >= TotalSteps(heap[smoothed.refs[exec_index]].duration)
                  THEN LET e == EnterWaypoint(robot, heap, smoothed.refs,
                                              exec_described, exec_index + 1,
                                              exec_started)
                       IN  /\ exec_pc' = e.pc
                           /\ exec_index' = e.index
                           /\ exec_started' = e.started
                           /\ exec_step' = 0
                  ELSE /\ exec_step' = exec_step + 1
                       /\ UNCHANGED <<exec_pc, exec_index, exec_started>>
    /\ UNCHANGED <<robot, keyboard, exec_described, core_vars, concurrent_vars>>

\* One iteration of the control loop of execute_trajectory_waypoint (lines
\* 170-201) and, when it ends the waypoint, the return to execute_trajectory
\* and its next call.  stop_key: 'x' is among the keys get_action reports;
\* reached: the observation puts the total error below 2 degrees.
execute_trajectory_waypoint ==
    /\ exec_pc = "running"
    /\ \E stop_key \in BOOLEAN, reached \in BOOLEAN :
          IF keyboard = "connected" /\ stop_key
          THEN /\ last_step' = [stop_key |-> TRUE, sent |-> FALSE]
               /\ exec_pc' = "returned_false"
               /\ UNCHANGED <<exec_index, exec_step, exec_started>>
          ELSE /\ last_step' = [stop_key |-> FALSE, sent |-> TRUE]
               /\ IF reached
                     \/ exec_step + 1 >= TotalSteps(heap[smoothed.refs[exec_index]].duration)
                  THEN LET e == EnterWaypoint(robot, heap, smoothed.refs,
                                              exec_described, exec_index + 1,
                                              exec_started)
                       IN  /\ exec_pc' = e.pc
                           /\ exec_index' = e.index
                           /\ exec_started' = e.started
                           /\ exec_step' = 0
                  ELSE /\ exec_step' = exec_step + 1
                       /\ UNCHANGED <<exec_pc, exec_index, exec_started>>
    /\ UNCHANGED <<robot, keyboard, exec_described, core_vars, concurrent_vars>>

ExecNext ==
    \/ initialize_robot
    \/ execute_trajectory
    \/ execute_trajectory_waypoint

ExecSpec == ExecInit /\ [][ExecNext]_vars

----------------------------------------------------------------------------
(* The integrated demo, demo_integrated.py: the timed robot worker and the  *)
(* threads the 'p' key starts share RobotController.is_moving.  A step of    *)
(* a thread is what it does between two points where another thread can     *)
(* run: the test of is_moving, and each assignment to it in                  *)
(* move_to_position.                                                         *)

\* The positions between the acceptance of a push trajectory and the end of
\* its backward retreat: audio alert, forward push, hold, retreat
PushPhases == {"alert", "push", "hold", "retreat"}

DemoInit ==
    /\ CoreIdle
    /\ ComponentsIdle

\* IntegratedDemo.run_unified_demo up to the detection loop: demo_running is
\* set and the timed robot worker thread started
run_unified_demo ==
    /\ ~demo_running
    /\ push_pc[TimedWorker] = "unstarted"
    /\ demo_running' = TRUE
    /\ push_pc' = [push_pc EXCEPT ![TimedWorker] = "check"]
    /\ UNCHANGED <<is_moving, core_vars, execution_vars, launcher_vars>>

\* CameraYOLOSystem.run_detection_loop, key 'p': a daemon thread is started
\* on the detection callback
manual_push_trigger(t) ==
    /\ demo_running
    /\ t # TimedWorker
    /\ push_pc[t] = "unstarted"
    /\ push_pc' = [push_pc EXCEPT ![t] = "check"]
    /\ UNCHANGED <<is_moving, demo_running, core_vars, execution_vars,
                   launcher_vars>>

\* CameraYOLOSystem.run_detection_loop, key 'q', and the finally clause of
\* run_unified_demo
quit_demo ==
    /\ demo_running
    /\ demo_running' = FALSE
    /\ UNCHANGED <<is_moving, push_pc, core_vars, execution_vars, launcher_vars>>

\* IntegratedDemo.on_bottle_detected in a 'p' thread: the test of is_moving
\* and the call of execute_push_trajectory, or the busy message
on_bottle_detected(t) ==
    /\ t # TimedWorker
    /\ push_pc[t] = "check"
    /\ push_pc' = [push_pc EXCEPT ![t] = IF ~is_moving THEN "alert"
                                         ELSE "skipped"]
    /\ UNCHANGED <<is_moving, demo_running, core_vars, execution_vars,
                   launcher_vars>>

\* IntegratedDemo._timed_robot_worker: the loop test and the test of
\* is_moving; when the robot is busy the worker sleeps and tests again
timed_robot_worker ==
    /\ push_pc[TimedWorker] = "check"
    /\ push_pc' = [push_pc EXCEPT ![TimedWorker] =
                      IF ~demo_running THEN "stopped"
                      ELSE IF ~is_moving THEN "alert"
                      ELSE "check"]
    /\ UNCHANGED <<is_moving, demo_running, core_vars, execution_vars,
                   launcher_vars>>

\* RobotController.execute_push_trajectory up to the first statement of
\* move_to_position: after the audio alert and its 1 s sleep (first call) or
\* after the 2 s hold (second call), is_moving is set
move_to_position_begin(t) ==
    /\ push_pc[t] \in {"alert", "hold"}
    /\ is_moving' = TRUE
    /\ push_pc' = [push_pc EXCEPT ![t] = IF push_pc[t] = "alert" THEN "push"
                                         ELSE "retreat"]
    /\ UNCHANGED <<demo_running, core_vars, execution_vars, launcher_vars>>

\* The end of move_to_position: is_moving is cleared, whether or not the
\* movement raised; after the retreat execute_push_trajectory returns, the
\* 'p' thread ends and the worker sleeps and tests again
move_to_position_end(t) ==
    /\ push_pc[t] \in {"push", "retreat"}
    /\ is_moving' = FALSE
    /\ push_pc' = [push_pc EXCEPT ![t] = IF push_pc[t] = "push" THEN "hold"
                                         ELSE IF t = TimedWorker THEN "check"
                                         ELSE "done"]
    /\ UNCHANGED <<demo_running, core_vars, execution_vars, launcher_vars>>

DemoNext ==
    \/ run_unified_demo
    \/ quit_demo
    \/ timed_robot_worker
    \/ \E t \in DemoThreads : manual_push_trigger(t)
    \/ \E t \in DemoThreads : on_bottle_detected(t)
    \/ \E t \in DemoThreads : move_to_position_begin(t)
    \/ \E t \in DemoThreads : move_to_position_end(t)

DemoSpec == DemoInit /\ [][DemoNext]_vars

----------------------------------------------------------------------------
(* The launcher, launcher.py, in real mode (in simulation mode tuya_ser is  *)
(* None and _get_trigger never returns a signal).  The main thread reads    *)
(* trigger signals; every session starts a monitor thread.  A step of a     *)
(* thread is what it does between two points where another thread can run:  *)
(* the test of robot_busy, its assignments, and each call finish_session    *)
(* makes that does file or library work.                                    *)

\* The signals the serial line delivers: two session lengths in minutes and
\* the three commands
TriggerSignals == {"0", "1", "finish", "status", "quit"}

\* IntegratedSystem.is_integer: int(s) succeeds
is_integer(s) == s \in {"0", "1"}

\* int(s) for the two session lengths
IntOf(s) == IF s = "0" THEN 0 ELSE 1

\* SessionData(start_time, duration_minutes) as start_session creates it:
\* duration_minutes is the value it was called with
SessionData(n, duration_minutes) ==
    [id |-> n, duration_minutes |-> duration_minutes, has_metrics |-> FALSE,
     has_robot_triggers |-> FALSE, ended |-> FALSE]

\* save_session_data: nothing without a session; np.min of an empty
\* attention_history raises ValueError before the file is opened; otherwise
\* the session file is written
save_session_data(session) ==
    IF session = NoSession THEN "returned"
    ELSE IF ~session.has_metrics THEN "raised"
    ELSE "saved"

\* Mutant of generate_visualization: the plot is drawn whatever the type of
\* duration_minutes
generate_visualization_any_duration(session) ==
    IF session = NoSession \/ ~session.has_metrics THEN "returned"
    ELSE "saved"

\* generate_visualization: nothing without a session or without metrics;
\* np.linspace(0, duration_minutes, n) raises TypeError when
\* duration_minutes is a str; otherwise the plot is saved
generate_visualization(session) ==
    IF session = NoSession \/ ~session.has_metrics THEN "returned"
    ELSE IF session.duration_minutes.type = "str" THEN "raised"
    ELSE "saved"

\* Where a thread is after its finish_session call returned or raised: the
\* monitor loop breaks in both cases, listen_for_triggers catches the
\* exception and goes on, and cleanup is the last thing main() does
AfterFinish(t, cleaning) ==
    IF t # MainThread THEN "ended"
    ELSE IF cleaning THEN "exited"
    ELSE "listen"

\* finish_session up to the call of save_session_data (lines 527-541), or
\* the whole call when there is no session
finish_session(t, cleaning) ==
    IF ~in_session
    THEN [in_session |-> in_session, current_session |-> current_session,
          session_history |-> session_history, pc |-> AfterFinish(t, cleaning)]
    ELSE IF current_session # NoSession
    THEN [in_session |-> in_session,
          current_session |-> [current_session EXCEPT !.ended = TRUE],
          session_history |-> Append(session_history, current_session.id),
          pc |-> IF cleaning THEN "cleanup_save" ELSE "save"]
    ELSE [in_session |-> FALSE, current_session |-> NoSession,
          session_history |-> session_history, pc |-> AfterFinish(t, cleaning)]

LauncherInit ==
    /\ CoreIdle
    /\ ComponentsIdle

\* main() in real mode up to the loop of listen_for_triggers
listen_for_triggers ==
    /\ launcher_pc[MainThread] = "constructed"
    /\ is_running' = TRUE
    /\ launcher_pc' = [launcher_pc EXCEPT ![MainThread] = "listen"]
    /\ UNCHANGED <<in_session, robot_busy, current_session, session_history,
                   saved_sessions, sessions_started, triggers, core_vars,
                   execution_vars, demo_vars>>

\* One turn of the loop of listen_for_triggers with a signal: _process_trigger.
\* An integer starts a session with the signal itself, a str, as its
\* duration (start_session, start_monitoring) and then connects the robot;
\* 'finish' enters finish_session; 'quit' clears is_running.
process_trigger ==
    /\ launcher_pc[MainThread] = "listen"
    /\ is_running
    /\ Len(triggers) < MaxTriggers
    /\ \E trigger \in TriggerSignals :
          /\ triggers' = Append(triggers, trigger)
          /\ IF is_integer(trigger) /\ ~in_session
             THEN /\ sessions_started < MaxMonitors
                  /\ current_session' =
                        SessionData(sessions_started + 1,
                                    [type |-> "str", value |-> IntOf(trigger)])
                  /\ in_session' = TRUE
                  /\ sessions_started' = sessions_started + 1
                  /\ launcher_pc' = [launcher_pc EXCEPT
                                        ![sessions_started + 1] = "loop"]
                  /\ UNCHANGED <<is_running, session_history>>
             ELSE IF trigger = "finish"
             THEN LET f == finish_session(MainThread, FALSE)
                  IN  /\ in_session' = f.in_session
                      /\ current_session' = f.current_session
                      /\ session_history' = f.session_history
                      /\ launcher_pc' = [launcher_pc EXCEPT ![MainThread] = f.pc]
                      /\ UNCHANGED <<is_running, sessions_started>>
             ELSE /\ is_running' = (is_running /\ trigger # "quit")
                  /\ UNCHANGED <<in_session, current_session, session_history,
                                 sessions_started, launcher_pc>>
    /\ UNCHANGED <<robot_busy, saved_sessions, core_vars, execution_vars,
                   demo_vars>>

\* IntegratedSystem.cleanup, called when the loop of listen_for_triggers
\* ended or was interrupted
cleanup ==
    /\ launcher_pc[MainThread] = "listen"
    /\ LET f == finish_session(MainThread, TRUE)
       IN  /\ in_session' = f.in_session
           /\ current_session' = f.current_session
           /\ session_history' = f.session_history
           /\ launcher_pc' = [launcher_pc EXCEPT ![MainThread] = f.pc]
    /\ UNCHANGED <<is_running, robot_busy, saved_sessions, sessions_started,
                   triggers, core_vars, execution_vars, demo_vars>>

\* A monitor thread runs until the process exits
MonitorAt(m, pc) ==
    /\ m # MainThread
    /\ launcher_pc[m] = pc
    /\ launcher_pc[MainThread] # "exited"

\* One turn of monitor_loop up to _check_robot_trigger: the loop test, the
\* timeout test with its finish_session call, and add_metrics.  A session of
\* 0 minutes has timed out at once.
monitor_loop(m) ==
    /\ MonitorAt(m, "loop")
    /\ IF ~in_session
       THEN /\ launcher_pc' = [launcher_pc EXCEPT ![m] = "ended"]
            /\ UNCHANGED <<in_session, current_session, session_history>>
       ELSE \E timeout \in BOOLEAN :
               /\ current_session.duration_minutes.value = 0 => timeout
               /\ IF timeout
                  THEN LET f == finish_session(m, FALSE)
                       IN  /\ in_session' = f.in_session
                           /\ current_session' = f.current_session
                           /\ session_history' = f.session_history
                           /\ launcher_pc' = [launcher_pc EXCEPT ![m] = f.pc]
                  ELSE /\ current_session' =
                             IF current_session = NoSession THEN NoSession
                             ELSE [current_session EXCEPT !.has_metrics = TRUE]
                       /\ launcher_pc' = [launcher_pc EXCEPT ![m] = "check"]
                       /\ UNCHANGED <<in_session, session_history>>
    /\ UNCHANGED <<is_running, robot_busy, saved_sessions, sessions_started,
                   triggers, core_vars, execution_vars, demo_vars>>

\* _check_robot_trigger: nothing while robot_busy; fires: the cooldown is
\* over and the attention and stress values meet a trigger condition
check_robot_trigger(m) ==
    /\ MonitorAt(m, "check")
    /\ \E fires \in BOOLEAN :
          launcher_pc' = [launcher_pc EXCEPT ![m] =
                             IF ~robot_busy /\ fires THEN "trigger" ELSE "loop"]
    /\ UNCHANGED <<is_running, in_session, robot_busy, current_session,
                   session_history, saved_sessions, sessions_started,
                   triggers, core_vars, execution_vars, demo_vars>>

\* trigger_robot up to the delivery: robot_busy is set and the trigger
\* recorded in the session
trigger_robot(m) ==
    /\ MonitorAt(m, "trigger")
    /\ robot_busy' = TRUE
    /\ current_session' =
          IF current_session = NoSession THEN NoSession
          ELSE [current_session EXCEPT !.has_robot_triggers = TRUE]
    /\ launcher_pc' = [launcher_pc EXCEPT ![m] = "delivering"]
    /\ UNCHANGED <<is_running, in_session, session_history, saved_sessions,
                   sessions_started, triggers, core_vars, execution_vars,
                   demo_vars>>

\* The end of trigger_robot: the delivery returned (its exceptions are
\* caught in _execute_robot_delivery), robot_busy is cleared and the monitor
\* sleeps until its next turn
execute_robot_delivery(m) ==
    /\ MonitorAt(m, "delivering")
    /\ robot_busy' = FALSE
    /\ launcher_pc' = [launcher_pc EXCEPT ![m] = "loop"]
    /\ UNCHANGED <<is_running, in_session, current_session, session_history,
                   saved_sessions, sessions_started, triggers, core_vars,
                   execution_vars, demo_vars>>

\* Threads that have not been ended by the exit of the process
Alive(t) == t = MainThread \/ launcher_pc[MainThread] # "exited"

\* finish_session, line 541: save_session_data
finish_session_save(t) ==
    /\ launcher_pc[t] \in {"save", "cleanup_save"}
    /\ Alive(t)
    /\ LET cleaning == launcher_pc[t] = "cleanup_save"
           outcome == save_session_data(current_session)
       IN  /\ saved_sessions' = IF outcome = "saved"
                                THEN Append(saved_sessions, current_session.id)
                                ELSE saved_sessions
           /\ launcher_pc' = [launcher_pc EXCEPT ![t] =
                                 IF outcome = "raised"
                                 THEN AfterFinish(t, cleaning)
                                 ELSE IF cleaning THEN "cleanup_visualize"
                                 ELSE "visualize"]
    /\ UNCHANGED <<is_running, in_session, robot_busy, current_session,
                   session_history, sessions_started, triggers, core_vars,
                   execution_vars, demo_vars>>

\* finish_session, lines 544-553: generate_visualization and, when it
\* returns, the reset of in_session and current_session
finish_session_visualize(t) ==
    /\ launcher_pc[t] \in {"visualize", "cleanup_visualize"}
    /\ Alive(t)
    /\ LET cleaning == launcher_pc[t] = "cleanup_visualize"
           outcome == generate_visualization(current_session)
       IN  /\ launcher_pc' = [launcher_pc EXCEPT ![t] = AfterFinish(t, cleaning)]
           /\ in_session' = IF outcome = "raised" THEN in_session ELSE FALSE
           /\ current_session' = IF outcome = "raised" THEN current_session
                                 ELSE NoSession
    /\ UNCHANGED <<is_running, robot_busy, session_history, saved_sessions,
                   sessions_started, triggers, core_vars, execution_vars,
                   demo_vars>>

LauncherNext ==
    \/ listen_for_triggers
    \/ process_trigger
    \/ cleanup
    \/ \E m \in LauncherThreads : monitor_loop(m)
    \/ \E m \in LauncherThreads : check_robot_trigger(m)
    \/ \E m \in LauncherThreads : trigger_robot(m)
    \/ \E m \in LauncherThreads : execute_robot_delivery(m)
    \/ \E t \in LauncherThreads : finish_session_save(t)
    \/ \E t \in LauncherThreads : finish_session_visualize(t)

LauncherSpec == LauncherInit /\ [][LauncherNext]_vars

----------------------------------------------------------------------------
(* Properties *)

InLimits(x, y, z) ==
    /\ x >= x_min /\ x <= x_max
    /\ y >= y_min /\ y <= y_max
    /\ z >= z_min /\ z <= z_max

InLimitsXY(x, y) == x >= x_min /\ x <= x_max /\ y >= y_min /\ y <= y_max

\* |l1 - l2| <= sqrt(x^2 + y^2) <= l1 + l2
InReach(x, y) ==
    /\ x * x + y * y <= (l1 + l2) * (l1 + l2)
    /\ x * x + y * y >= (l1 - l2) * (l1 - l2)

PhaseNames == <<"start", "above_bottle", "approach", "pre_contact", "contact",
                "push_through", "retract", "return_home">>

\* The table of section 4.3 for target b and push angle a = <<5 cos t, 5 sin t>>:
\* 0.03 cos t is 60 * a[1], 0.01 cos t is 20 * a[1]
Tabulated(b, a) ==
    LET px == b.world_x + (push_distance \div 5) * a[1]
        py == b.world_y + (push_distance \div 5) * a[2]
    IN  << [x |-> 1500, y |-> 0, z |-> safe_height],
           [x |-> b.world_x, y |-> b.world_y, z |-> approach_height],
           [x |-> b.world_x - 60 * a[1], y |-> b.world_y - 60 * a[2], z |-> contact_height],
           [x |-> b.world_x - 20 * a[1], y |-> b.world_y - 20 * a[2], z |-> contact_height],
           [x |-> b.world_x, y |-> b.world_y, z |-> contact_height],
           [x |-> px, y |-> py, z |-> contact_height],
           [x |-> px, y |-> py, z |-> approach_height],
           [x |-> 1500, y |-> 0, z |-> safe_height] >>

AllInReach(b, a) == \A k \in 1..8 : InReach(Tabulated(b, a)[k].x, Tabulated(b, a)[k].y)

AllInLimits(b, a) ==
    \A k \in 1..8 : InLimits(Tabulated(b, a)[k].x, Tabulated(b, a)[k].y, Tabulated(b, a)[k].z)

\* The caller holds a list of exactly 8 waypoints, named in phase order, each
\* with joint angles
ReturnedEight ==
    /\ ~trajectory.none
    /\ Len(trajectory.refs) = 8
    /\ \A k \in 1..8 :
          /\ heap[trajectory.refs[k]].name = PhaseNames[k]
          /\ heap[trajectory.refs[k]].has_joint_angles

\* C1: every trajectory generate_push_trajectory returns has all its waypoint
\* positions inside WorkspaceLimits, and a phase position outside the limits
\* makes it return None.
C1_ReturnedTrajectoryInWorkspace ==
    caller = "generated" =>
        /\ ~trajectory.none =>
              \A k \in 1..Len(trajectory.refs) :
                  InLimits(heap[trajectory.refs[k]].x, heap[trajectory.refs[k]].y,
                           heap[trajectory.refs[k]].z)
        /\ ~AllInLimits(gen_bottle, gen_angle) => trajectory.none

\* C2: a target whose world (x, y) is inside WorkspaceLimits always gets the
\* 8 named waypoints with joint angles, whatever the push angle.
C2_InWorkspaceTargetGetsEight ==
    (caller = "generated" /\ InLimitsXY(gen_bottle.world_x, gen_bottle.world_y))
        => ReturnedEight

\* C3: when IK gives None for one of the 8 waypoints the call returns None;
\* what the caller receives is None or 8 waypoints that all carry joint angles.
C3_NoPartialTrajectory ==
    caller = "generated" =>
        /\ ~AllInReach(gen_bottle, gen_angle) => (trajectory.none /\ heap = <<>>)
        /\ ~trajectory.none =>
              /\ Len(trajectory.refs) = 8
              /\ \A k \in 1..8 : heap[trajectory.refs[k]].has_joint_angles

\* IK fails on a later waypoint after earlier ones were resolved
C3_Witness ==
    /\ caller = "generated"
    /\ InReach(Tabulated(gen_bottle, gen_angle)[2].x, Tabulated(gen_bottle, gen_angle)[2].y)
    /\ ~InReach(Tabulated(gen_bottle, gen_angle)[6].x, Tabulated(gen_bottle, gen_angle)[6].y)
    /\ trajectory.none

\* C4: the IK solver used for the waypoints returns a pose for every target
\* with r > 0; out of reach is no reason for a None result.
C4_IKAlwaysReturnsPose ==
    (caller = "ik" /\ ik_arg # <<0, 0>>) => ~ik_result.none

\* What C5 says detect_bottles keeps
ClaimedKept(box) ==
    LET w == pixel_to_world(camera_params, (box.x1 + box.x2) \div 2,
                            (box.y1 + box.y2) \div 2)
    IN  /\ \/ Contains(bottle_name, Lower(box.cls))
           \/ Contains(cup_name, Lower(box.cls))
           \/ Contains(can_name, Lower(box.cls))
        /\ box.conf >= 300
        /\ InLimitsXY(w.x, w.y)

BoxOf(box) == <<box.x1, box.y1, box.x2, box.y2>>

\* C5: detect_bottles returns exactly the detections of an allow-listed class
\* with confidence >= 0.3 whose projected world centre is inside the
\* workspace bounds.
C5_DetectReturnsExactlyTheValid ==
    caller = "detected" =>
        LET kept == SelectSeq(frame_boxes, ClaimedKept)
        IN  /\ Len(bottles) = Len(kept)
            /\ \A k \in 1..Len(kept) :
                  /\ bottles[k].bbox = BoxOf(kept[k])
                  /\ bottles[k].confidence = kept[k].conf

\* C6: in a detect-plan cycle generate_push_trajectory is invoked only with a
\* bottle detect_bottles returned, whose world (x, y) is inside
\* WorkspaceLimits; a detection projecting outside is never its argument.
C6_OnlyFilteredTargetsPlanned ==
    caller = "planned" =>
        \A k \in 1..Len(gen_calls) :
            /\ InLimitsXY(gen_calls[k].world_x, gen_calls[k].world_y)
            /\ \E m \in 1..Len(bottles) : bottles[m] = gen_calls[k]
            /\ \E m \in 1..Len(frame_boxes) :
                  /\ BoxOf(frame_boxes[m]) = gen_calls[k].bbox
                  /\ InLimitsXY(
                        pixel_to_world(camera_params, gen_calls[k].pixel_x,
                                       gen_calls[k].pixel_y).x,
                        pixel_to_world(camera_params, gen_calls[k].pixel_x,
                                       gen_calls[k].pixel_y).y)

\* A cycle whose frame holds a cup projecting to x = 0.30 > x_max
C6_Witness ==
    /\ caller = "planned"
    /\ cap = "opened"
    /\ \E m \in 1..Len(frame_boxes) :
          /\ frame_boxes[m].cls = cup_name
          /\ frame_boxes[m].conf > 300
          /\ pixel_to_world(camera_params, (frame_boxes[m].x1 + frame_boxes[m].x2) \div 2,
                            (frame_boxes[m].y1 + frame_boxes[m].y2) \div 2).x = 3000
          /\ \A k \in 1..Len(gen_calls) : gen_calls[k].bbox # BoxOf(frame_boxes[m])

\* C7: the waypoints of a generated trajectory sit at the tabulated
\* positions; target (0.18, 0.05) with angle 0 has push_through at
\* (0.23, 0.05, contact_height).
C7_WaypointsAtTabulatedPositions ==
    (caller = "generated" /\ ~trajectory.none) =>
        /\ Len(trajectory.refs) = 8
        /\ \A k \in 1..8 :
              /\ heap[trajectory.refs[k]].x = Tabulated(gen_bottle, gen_angle)[k].x
              /\ heap[trajectory.refs[k]].y = Tabulated(gen_bottle, gen_angle)[k].y
              /\ heap[trajectory.refs[k]].z = Tabulated(gen_bottle, gen_angle)[k].z
        /\ (gen_bottle = [world_x |-> 1800, world_y |-> 500] /\ gen_angle = <<5, 0>>)
              => /\ heap[trajectory.refs[6]].x = 2300
                 /\ heap[trajectory.refs[6]].y = 500
                 /\ heap[trajectory.refs[6]].z = 800

C7_Witness ==
    /\ caller = "generated"
    /\ gen_bottle = [world_x |-> 1800, world_y |-> 500]
    /\ gen_angle = <<5, 0>>
    /\ ~trajectory.none
    /\ heap[trajectory.refs[6]].name = "push_through"
    /\ heap[trajectory.refs[6]].x = 2300

SameButDuration(w, v) ==
    /\ w.name = v.name
    /\ w.x = v.x /\ w.y = v.y /\ w.z = v.z
    /\ w.has_joint_angles = v.has_joint_angles
    /\ w.joint_angles = v.joint_angles

AfterSmooth == caller \in {"smoothed", "resmoothed"}

\* C8: smooth_trajectory returns the same waypoints in the same order with
\* names, coordinates and joint angles as given; the first and the last
\* duration are as given, and a list of at most two waypoints keeps all its
\* durations.
C8_SmoothChangesOnlyInteriorDurations ==
    AfterSmooth =>
        /\ smoothed.none = smooth_arg.none
        /\ smoothed.refs = smooth_arg.refs
        /\ \A k \in 1..Len(smoothed.refs) :
              /\ SameButDuration(heap[smoothed.refs[k]], before[k])
              /\ (k = 1 \/ k = Len(smoothed.refs))
                    => heap[smoothed.refs[k]].duration = before[k].duration

C8_Witness ==
    /\ caller = "smoothed"
    /\ Len(smoothed.refs) = 8
    /\ \E k \in 2..7 : heap[smoothed.refs[k]].duration # before[k].duration
    /\ heap[smoothed.refs[8]].duration = 3000

Dist2(a, b) ==
    (a.x - b.x) * (a.x - b.x) + (a.y - b.y) * (a.y - b.y) + (a.z - b.z) * (a.z - b.z)

\* d is max(0.5 s, sqrt(m2) / (0.1 m/s)) cut to the millisecond, for the
\* squared length m2: a length of d units takes d ms
IsSmoothDuration(d, m2) ==
    /\ d >= 500
    /\ d > 500 => (d * d <= m2 /\ m2 < (d + 1) * (d + 1))
    /\ d = 500 => m2 < 501 * 501

\* C9: after smooth_trajectory every interior waypoint has duration
\* max(0.5, max(d(i-1,i), d(i,i+1)) / 0.1); no assigned duration is below
\* 0.5 s and every duration is positive.
C9_InteriorDurationFromDistance ==
    AfterSmooth =>
        /\ \A k \in 2..(Len(smoothed.refs) - 1) :
              LET w == heap[smoothed.refs[k]]
                  p == heap[smoothed.refs[k - 1]]
                  n == heap[smoothed.refs[k + 1]]
              IN  IsSmoothDuration(w.duration,
                                   IF Dist2(w, p) >= Dist2(n, w) THEN Dist2(w, p)
                                   ELSE Dist2(n, w))
        /\ \A k \in 1..Len(smoothed.refs) : heap[smoothed.refs[k]].duration > 0

\* One interior waypoint timed by its travel, another held at the floor
C9_Witness ==
    /\ caller = "smoothed"
    /\ Len(smoothed.refs) = 8
    /\ \E k \in 2..7 : heap[smoothed.refs[k]].duration > 500
    /\ \E k \in 2..7 : /\ heap[smoothed.refs[k]].duration = 500
                       /\ before[k].duration # 500

\* C10: the list passed to smooth_trajectory and its waypoint records are
\* the same after the call as before it.
C10_SmoothLeavesInputUntouched ==
    AfterSmooth => Snapshot(heap, smooth_arg) = before

Lifecycle == <<"Requested", "Detecting", "TargetSelected", "WaypointsSynthesized",
               "IKResolved", "Validated", "Smoothed", "ReadyForExecution">>

\* The stages from Requested up to stage k, then Aborted
AbortedAfter(k) == Append(SubSeq(Lifecycle, 1, k), "Aborted")

\* C11: a detect-plan cycle goes through the lifecycle stages in order and
\* hands over a trajectory only at ReadyForExecution, after every stage
\* including Validated; otherwise it stops in Aborted after a prefix of the
\* stages with no trajectory and no waypoint kept, and it stops at Detecting
\* only when the frame holds no valid target.
C11_CycleFollowsLifecycle ==
    caller = "planned" =>
        \/ stages = Lifecycle /\ ~plan_result.none
        \/ \E k \in 1..7 :
              /\ stages = AbortedAfter(k)
              /\ plan_result.none
              /\ heap = <<>>
              /\ k = 2 => ~\E m \in 1..Len(frame_boxes) : ClaimedKept(frame_boxes[m])

\* The stage a failed cycle stopped at
FailedAt(st) == st[Len(st) - 1]

\* C12: two failed cycles that stopped for different reasons hand the
\* caller different values.
C12_FailuresCarryTheirReason ==
    [][(/\ caller = "planned" /\ caller' = "planned"
        /\ plan_result.none /\ plan_result'.none
        /\ FailedAt(stages) # FailedAt(stages'))
           => plan_result' # plan_result]_vars

BadFileClasses == {"missing", "unparseable", "incomplete"}

\* The transformer has only ever read a missing, unparseable or incomplete
\* calibration file
OnlyBadFilesLoaded == transformer.loaded_kinds \subseteq BadFileClasses

\* C13: a transformer that found only a missing, unparseable or incomplete
\* calibration file is constructed uncalibrated and its pixel_to_world calls
\* return the linear fallback; the planner's pixel_to_world returns its
\* linear fallback when its parameters were not loaded or lack a key.
C13_BadCalibrationFallsBack ==
    /\ OnlyBadFilesLoaded =>
          /\ ~transformer.is_calibrated
          /\ last_call.op \in {"pixel_to_world_simple", "pixel_to_world_homography"}
                /\ transformer.homography_matrix.none
                => last_call.result = World((last_call.args[1] - 640) * 5,
                                            (last_call.args[2] - 360) * 5, 0)
    /\ (last_call.op = "pixel_to_world"
          /\ (~camera_params.loaded \/ ~camera_params.well_formed))
          => last_call.result = World(1500 + (last_call.args[1] - 320) * 3,
                                      (last_call.args[2] - 240) * 3, 0)

\* A transformer built from a file that has the camera matrix but no
\* distortion coefficients answers a pixel off the image centre
C13_Witness ==
    /\ transformer.loaded_kinds = {"incomplete"}
    /\ ~transformer.camera_matrix.none
    /\ ~transformer.is_calibrated
    /\ last_call.op = "pixel_to_world_simple"
    /\ last_call.args = <<320, 180>>
    /\ last_call.result = World(-1600, -900, 0)

\* C14: a calibrate_workspace call with fewer than 4 correspondences returns
\* False and leaves the instance and workspace_calibration.json as they
\* were, so pixel_to_world_homography answers as before.
C14_TooFewPointsRejected ==
    [][(last_call'.op = "calibrate_workspace" /\ Len(last_call'.args) < 4)
          => /\ ~last_call'.ok
             /\ transformer' = transformer
             /\ workspace_file' = workspace_file
             /\ \A p \in Pixels :
                   pixel_to_world_homography(transformer', p[1], p[2])
                       = pixel_to_world_homography(transformer, p[1], p[2])]_vars

\* Three correspondences were refused on a transformer that already has a
\* homography
C14_Witness ==
    /\ last_call.op = "calibrate_workspace"
    /\ Len(last_call.args) = 3
    /\ ~last_call.ok
    /\ ~transformer.homography_matrix.none
    /\ workspace_file = transformer.homography_matrix

\* The HomographyRecord available to the transformer: the one its own
\* calibrate_workspace fitted, else the one persisted before it was
\* constructed
AvailableHomography ==
    IF ~transformer.homography_matrix.none THEN transformer.homography_matrix
    ELSE transformer.persisted_at_init

\* C15: pixel_to_world_homography applies the homography whenever a
\* HomographyRecord is available, fitted on this transformer or persisted
\* before it was constructed, and gives the pinhole result only when there
\* is none.
C15_HomographyAppliedWhenAvailable ==
    last_call.op = "pixel_to_world_homography" =>
        last_call.result =
            IF AvailableHomography.none
            THEN pixel_to_world_simple(transformer, last_call.args[1],
                                       last_call.args[2], TRUE)
            ELSE perspectiveTransform(AvailableHomography, last_call.args[1],
                                      last_call.args[2])

\* Camera matrix, distortion coefficients, homography and workspace
\* parameters of a transformer
CalibrationData(t) ==
    <<t.camera_matrix, t.dist_coeffs, t.homography_matrix, t.workspace_config>>

\* Every pixel maps to the same world point on t and on u
SameMapping(t, u) ==
    \/ t = u
    \/ \A p \in Pixels :
          /\ pixel_to_world_simple(t, p[1], p[2], TRUE)
                = pixel_to_world_simple(u, p[1], p[2], TRUE)
          /\ pixel_to_world_homography(t, p[1], p[2])
                = pixel_to_world_homography(u, p[1], p[2])

TransformCalls == {"undistort_point", "pixel_to_world_simple", "world_to_pixel",
                   "pixel_to_world_homography"}

Distance(a, b) == IF a >= b THEN a - b ELSE b - a

\* C17: on a calibrated transformer world_to_pixel of the world point
\* pixel_to_world_simple gives for a pixel is that pixel, within 2 pixels on
\* each axis.
C17_RoundTripWithinTolerance ==
    (/\ last_call.op = "pixel_to_world_simple"
     /\ last_call.ok
     /\ transformer.is_calibrated)
        => LET q == world_to_pixel(transformer, last_call.result.x,
                                   last_call.result.y)
           IN  /\ Distance(q[1], last_call.args[1]) <= 2
               /\ Distance(q[2], last_call.args[2]) <= 2

\* wrist_flex + shoulder_lift + elbow_flex of a pose: the pitch trim, when
\* wrist_flex is -shoulder_lift - elbow_flex + pitch_trim
PitchTrimOf(angles) == angles.wrist_flex + angles.shoulder_lift + angles.elbow_flex

\* C18: the joint angles of every waypoint of a generated trajectory have
\* wrist_flex = -shoulder_lift - elbow_flex + pitch_trim for one pitch_trim
\* of the call, and wrist_roll and gripper at their defaults.
C18_WristKeepsEndEffectorLevel ==
    (caller = "generated" /\ ~trajectory.none) =>
        \A k \in 1..Len(trajectory.refs) :
            /\ PitchTrimOf(heap[trajectory.refs[k]].joint_angles)
                  = PitchTrimOf(heap[trajectory.refs[1]].joint_angles)
            /\ heap[trajectory.refs[k]].joint_angles.wrist_roll = 0
            /\ heap[trajectory.refs[k]].joint_angles.gripper = 0

\* The hardware range of the returned angles: joint2 in [-0.1, 3.45] rad and
\* joint3 in [-0.2, pi] rad, taken through 90 - degrees(joint2) and
\* degrees(joint3) - 90
ShoulderInLimits(a) == 90000 - joint2_max <= a /\ a <= 90000 - joint2_min
ElbowInLimits(a) == joint3_min - 90000 <= a /\ a <= joint3_max - 90000

\* The pose lerobot_yolo.inverse_kinematics returned is within the limits
LerobotPoseInLimits ==
    ~lerobot_result.raised =>
        /\ ShoulderInLimits(lerobot_result.joint2_deg)
        /\ ElbowInLimits(lerobot_result.joint3_deg)

\* The pose TrajectoryPlanner.inverse_kinematics returned is within the limits
PlannerPoseInLimits ==
    ~ik_result.none =>
        /\ ShoulderInLimits(ik_result.angles.shoulder_lift)
        /\ ElbowInLimits(ik_result.angles.elbow_flex)

\* C19: whenever IK returns a pose its shoulder and elbow angles are within
\* the hardware range limits, and target (0.15, 0.00) gets such a pose.
C19_PoseWithinHardwareLimits ==
    caller = "ik" =>
        /\ LerobotPoseInLimits
        /\ PlannerPoseInLimits
        /\ ik_arg = <<1500, 0>> => (~lerobot_result.raised /\ ~ik_result.none)

\* The last IK call had a target beyond l1 + l2 whose rescaled point
\* (x * r_max / r, y * r_max / r) has whole coordinates in the model's unit
BeyondReachCall ==
    /\ caller = "ik"
    /\ ik_arg[1] * ik_arg[1] + ik_arg[2] * ik_arg[2] > (l1 + l2) * (l1 + l2)
    /\ LET q == RescaleTo(ik_arg[1], ik_arg[2], l1 + l2)
       IN  q[1] * q[1] + q[2] * q[2] = (l1 + l2) * (l1 + l2)

\* lerobot_yolo.inverse_kinematics returns the same for the target and for
\* the target rescaled
LerobotIdempotent ==
    BeyondReachCall =>
        LET q == RescaleTo(ik_arg[1], ik_arg[2], l1 + l2)
        IN  lerobot_result = lerobot_inverse_kinematics(q[1], q[2])

\* TrajectoryPlanner.inverse_kinematics returns the same for the target and
\* for the target rescaled
PlannerIdempotent ==
    BeyondReachCall =>
        LET q == RescaleTo(ik_arg[1], ik_arg[2], l1 + l2)
        IN  ik_result = inverse_kinematics(q[1], q[2])

\* C20: for a target beyond l1 + l2, IK returns what it returns for the
\* target rescaled onto the circle of radius l1 + l2.
C20_IdempotentUnderRadialClamp == LerobotIdempotent /\ PlannerIdempotent

\* C21: no IK entry point raises, whatever the target, and for the target at
\* the origin the planner's solver hands back its explicit null result.
C21_DegenerateGeometryNeverRaises ==
    caller = "ik" =>
        /\ ~lerobot_result.raised
        /\ ik_arg = <<0, 0>> => ik_result.none

\* Squared distance of a detection to the arm origin
OriginDist2(b) == b.world_x * b.world_x + b.world_y * b.world_y

\* C22: the target chosen for planning is one of the surviving detections
\* and no surviving detection is strictly nearer to the arm origin.
C22_TargetIsNearest ==
    caller = "selected" =>
        /\ \E m \in 1..Len(bottles) : bottles[m] = gen_calls[1]
        /\ \A m \in 1..Len(bottles) : OriginDist2(bottles[m]) >= OriginDist2(gen_calls[1])

\* The nearest of three detections is not the first of the list and not the
\* one with the smallest x, and another detection is as near as the target
C22_Witness ==
    /\ caller = "selected"
    /\ Len(bottles) = 3
    /\ gen_calls[1] # bottles[1]
    /\ \E m \in 1..3 : bottles[m].world_x < gen_calls[1].world_x
    /\ \E m \in 1..3 : /\ bottles[m] # gen_calls[1]
                       /\ OriginDist2(bottles[m]) = OriginDist2(gen_calls[1])

\* CORDIC rotation: turns (x, y) by z microdegrees, |z| <= 90 degrees
RECURSIVE CordicRotate(_, _, _, _)
CordicRotate(x, y, z, i) ==
    IF i > Len(AtanTable) THEN <<x, y>>
    ELSE LET p == Pow2(i - 1)
         IN  IF z >= 0
             THEN CordicRotate(x - Quot(y, p), y + Quot(x, p), z - AtanTable[i], i + 1)
             ELSE CordicRotate(x + Quot(y, p), y - Quot(x, p), z + AtanTable[i], i + 1)

\* <<cos a, sin a>> in 1/10000 for a in millidegrees; 607252935 is 10^9
\* over the gain of the rotations
CosSin(a) ==
    LET m == ((a + 180000) % 360000) - 180000
        folded == IF m > 90000 THEN 180000 - m
                  ELSE IF m < -90000 THEN -180000 - m ELSE m
        v == CordicRotate(607252935, 0, folded * 1000, 1)
        c == Quot(v[1] + 50000, 100000)
        s == Quot(v[2] + (IF v[2] >= 0 THEN 50000 ELSE -50000), 100000)
    IN  IF m > 90000 \/ m < -90000 THEN <<-c, s>> ELSE <<c, s>>

\* Forward kinematics of the 2-link arm: the first link at angle a1, the
\* second at angle a12, both from the x axis
ForwardKinematics(a1, a12) ==
    <<Quot(l1 * CosSin(a1)[1] + l2 * CosSin(a12)[1], 10000),
      Quot(l1 * CosSin(a1)[2] + l2 * CosSin(a12)[2], 10000)>>

\* The end effector for the angles TrajectoryPlanner.inverse_kinematics
\* returns: elbow_flex is measured from the first link
PlannerForward(angles) ==
    ForwardKinematics(angles.shoulder_lift, angles.shoulder_lift + angles.elbow_flex)

\* The end effector for the angles lerobot_yolo.inverse_kinematics returns,
\* its conversions and offsets undone: the second link is bent back by theta2
LerobotForward(pose) ==
    LET theta1 == (90000 - pose.joint2_deg) - theta1_offset
        theta2 == (pose.joint3_deg + 90000) - theta2_offset
    IN  ForwardKinematics(theta1, theta1 - theta2)

\* p and q are within 1 mm of each other
WithinOneMillimetre(p, q) ==
    (p[1] - q[1]) * (p[1] - q[1]) + (p[2] - q[2]) * (p[2] - q[2]) <= 10 * 10

\* The last IK call had a target with |l1 - l2| <= r <= l1 + l2
InReachCall == caller = "ik" /\ InReach(ik_arg[1], ik_arg[2])

\* The pose lerobot_yolo.inverse_kinematics returned is strictly inside the
\* hardware limits: neither angle was clamped
LerobotUnclamped ==
    /\ ~lerobot_result.raised
    /\ 90000 - joint2_max < lerobot_result.joint2_deg
    /\ lerobot_result.joint2_deg < 90000 - joint2_min
    /\ joint3_min - 90000 < lerobot_result.joint3_deg
    /\ lerobot_result.joint3_deg < joint3_max - 90000

\* C23: for every target with |l1 - l2| <= r <= l1 + l2 the angles each
\* solver returns, fed through forward kinematics, give the target within
\* 1 mm.
C23_ForwardKinematicsReproducesTarget ==
    InReachCall =>
        /\ ~ik_result.none
        /\ WithinOneMillimetre(PlannerForward(ik_result.angles), ik_arg)
        /\ ~lerobot_result.raised
        /\ WithinOneMillimetre(LerobotForward(lerobot_result), ik_arg)

\* C23 as amended: the angles of the planner's solver always give the
\* target within 1 mm, those of lerobot_yolo's solver whenever they are
\* strictly inside the hardware limits.
C23_ReproducesTargetUnlessClamped ==
    InReachCall =>
        /\ ~ik_result.none
        /\ WithinOneMillimetre(PlannerForward(ik_result.angles), ik_arg)
        /\ LerobotUnclamped
              => WithinOneMillimetre(LerobotForward(lerobot_result), ik_arg)

\* A reachable target off the x axis solved by both solvers without a clamp
C23_Witness ==
    /\ InReachCall
    /\ ik_arg = <<1500, 500>>
    /\ ~ik_result.none
    /\ LerobotUnclamped
    /\ WithinOneMillimetre(LerobotForward(lerobot_result), ik_arg)

\* execute_trajectory has ended
ExecutionEnded == exec_pc \in {"returned_true", "returned_false", "raised"}

\* C24: on a connected robot and without an emergency stop,
\* execute_trajectory on the smoothed trajectory of the planner, its waypoint
\* dicts as the planner built them, calls execute_trajectory_waypoint for
\* the waypoints in order, one call each, and ends by returning True after
\* the eighth.
C24_PlannerTrajectoryExecutes ==
    (/\ caller = "executing"
     /\ ~exec_described
     /\ robot = "connected"
     /\ ~last_step.stop_key)
        => /\ exec_started = Refs(Len(exec_started))
           /\ exec_pc = "running" => exec_started = Refs(exec_index)
           /\ ExecutionEnded => (exec_pc = "returned_true" /\ exec_started = Refs(8))

\* C27: a control step that observes the emergency-stop key sends no action
\* and makes execute_trajectory return False, and once it has returned no
\* step runs and no waypoint is started for that trajectory.
C27_EmergencyStopSendsNothingMore ==
    [][/\ last_step'.stop_key
          => /\ ~last_step'.sent
             /\ exec_pc' = "returned_false"
             /\ exec_started' = exec_started
       /\ (exec_pc = "returned_false" /\ last_step.stop_key)
          => /\ ~last_step'.sent
             /\ last_step'.stop_key
                   => UNCHANGED <<exec_pc, exec_index, exec_step, exec_started>>]_vars

\* The stop key was observed on the fourth waypoint, after actions had been
\* sent for it, and execute_trajectory returned False
C27_Witness ==
    /\ last_step.stop_key
    /\ ~last_step.sent
    /\ exec_pc = "returned_false"
    /\ exec_index = 4
    /\ exec_step > 0
    /\ exec_started = Refs(4)

\* The shoulder and elbow angle of a pose of the planner's solver, in the
\* shape the other solvers return
PlannerPose(r) ==
    [raised |-> r.none, joint2_deg |-> r.angles.shoulder_lift,
     joint3_deg |-> r.angles.elbow_flex]

\* C25: for the same target the four IK entry points agree on whether a
\* pose is produced and on the shoulder and elbow angles.
C25_EntryPointsAgree ==
    caller = "ik" =>
        LET simple == inverse_kinematics_simple(ik_arg[1], ik_arg[2])
            demo == RobotController_inverse_kinematics(ik_arg[1], ik_arg[2])
        IN  /\ PlannerPose(ik_result) = lerobot_result
            /\ lerobot_result = demo
            /\ demo = simple

\* C26: in the integrated demo at most one thread is between the acceptance
\* of a push trajectory (the is_moving test passed) and the end of its
\* backward retreat, audio alert and hold phase included.
C26_OnePushTrajectoryAtATime ==
    Cardinality({t \in DemoThreads : push_pc[t] \in PushPhases}) <= 1

\* The number of times session n occurs in a list of session ids
Occurrences(list, n) == Cardinality({i \in 1 .. Len(list) : list[i] = n})

\* C29: every session the launcher started is appended to session_history
\* at most once and its data saved at most once, whichever threads call
\* finish_session.
C29_SessionFinalisedOnce ==
    \A n \in 1 .. sessions_started :
        /\ Occurrences(session_history, n) <= 1
        /\ Occurrences(saved_sessions, n) <= 1

\* The monitor threads inside trigger_robot
Delivering == {m \in LauncherThreads : launcher_pc[m] = "delivering"}

C30_SmoothIsIdempotent ==
    caller = "resmoothed" =>
        /\ smoothed = smooth_arg
        /\ \A k \in 1 .. Len(smoothed.refs) :
              heap[smoothed.refs[k]].duration = before[k].duration

\* A list of three waypoints or more was smoothed twice and one of its inner
\* durations is set by a distance
C30_Witness ==
    /\ caller = "resmoothed"
    /\ ~smoothed.none
    /\ Len(smoothed.refs) >= 3
    /\ \E k \in 2 .. Len(smoothed.refs) - 1 :
          heap[smoothed.refs[k]].duration > min_duration

====
